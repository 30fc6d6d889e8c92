---------------------------- MODULE CardObjects ----------------------------
(***************************************************************************)
(* The objects an ability speaks of (its source, an enchanted object), the *)
(* keywords, the counts of cards, the conditions and the continuous        *)
(* effects: rules, conversion and printing, as in CardTerms.               *)
(***************************************************************************)
EXTENDS CardTerms

(* The source of an ability. *)
proper_name == Name("proper_name")
source_compound_permanent_type ==
    N("source_compound_permanent_type",
      Ahead(permanent_type & permanent_type) & permanent_type & Plus(permanent_type))
source_object_kind ==
      permanent_object | N("aura_source_object", W("aura"))
    | source_compound_permanent_type | permanent_type
source_object ==
    N("source_object",
      W("CARDNAME") | W("it") | W("this") & source_object_kind | W("this") | W("that source"))
source_object_possessive ==
    N("source_object_possessive",
      W("this") & source_object_kind & Opt(W("'s") | W("s")) | W("this ability's source's"))

source_object_from_kind_pair(p) ==
    CASE p.rule = "permanent_type" -> Node("This", <<permanent_type_from_pair(p)>>)
      [] p.rule = "source_compound_permanent_type" -> Node("This", <<permanent_type_from_pair(Kid(p, 1))>>)
      [] p.rule = "permanent_object"   -> Leaf("ThisPermanent")
      [] p.rule = "aura_source_object" -> Leaf("ThisAura")
      [] OTHER -> Internal
source_object_from_pair(p) ==
    CASE p.rule /= "source_object"  -> Internal
      [] Says(p, "CARDNAME")        -> Leaf("ThisPermanent")
      [] Says(p, "this")            -> Leaf("ThisPermanent")
      [] Says(p, "it")              -> Leaf("It")
      [] Says(p, "that source")     -> Leaf("ThatSource")
      [] OTHER -> source_object_from_kind_pair(only_inner(p))
source_object_from_possessive_pair(p) ==
    CASE p.rule /= "source_object_possessive" -> Internal
      [] Says(p, "this ability's source's")   -> Leaf("ThisPermanent")
      [] OTHER -> source_object_from_kind_pair(only_inner(p))
source_or_name_as_source_object(p) ==
    CASE p.rule = "source_object" -> source_object_from_pair(p)
      [] p.rule = "proper_name"   -> Leaf("ThisPermanent")
      [] OTHER -> Internal

write_source_object(a) ==
    CASE a.n = "It"            -> T("it")
      [] a.n = "This"          -> T("this") \o permanent_type_name(a.c[1])
      [] a.n = "ThisPermanent" -> T("this permanent")
      [] a.n = "ThisAura"      -> T("this aura")
      [] a.n = "ThatSource"    -> T("that source")
write_source_object_possessive_without_apostrophe(a) ==
    CASE a.n = "It" -> T("its")
      [] OTHER      -> write_source_object(a) \o T("s")

(* The enchanted object; a player's or a permanent's owner. *)
enchanted_object == permanent_object | Plus(permanent_type) | creature_type
that_permanents_controller ==
    N("that_permanents_controller", W("that") & (permanent_object | permanent_type) & W("'s controller"))
the_permanents_controller ==
    N("the_permanents_controller", W("the") & (permanent_object | permanent_type) & W("'s controller"))
that_permanents_toughness ==
    N("that_permanents_toughness", W("that") & (permanent_object | permanent_type) & W("'s toughness"))

enchanted_object_from_pair(p) ==
    CASE p.rule = "permanent_object" -> Leaf("AnyPermanent")
      [] p.rule = "permanent_type"   -> Node("Permanent", <<permanent_type_from_pair(p)>>)
      [] p.rule = "creature_type"    -> Node("CreatureType", <<creature_type_from_pair(p)>>)
      [] OTHER -> Internal
that_permanents_controller_from_pair(p) ==
    IF p.rule = "that_permanents_controller" THEN permanent_type_from_pair(only_inner(p)) ELSE Internal
the_permanents_controller_from_pair(p) ==
    IF p.rule = "the_permanents_controller" THEN permanent_type_from_pair(only_inner(p)) ELSE Internal

write_enchanted_object(a) ==
    CASE a.n = "AnyPermanent" -> T("permanent")
      [] a.n = "Permanent"    -> permanent_type_name(a.c[1])
      [] a.n = "CreatureType" -> creature_type_name(a.c[1])

(* Counts of cards. *)
draw_that_many_cards_object == N("draw_that_many_cards_object", W("that many cards"))
draw_card_object ==
      N("activated_draw_one_card", article & W("card"))
    | N("activated_draw_counted_cards", card_count & W("cards"))
    | draw_that_many_cards_object
discard_one_card      == N("discard_one_card", article & W("card"))
discard_counted_cards == N("discard_counted_cards", card_count & W("cards"))

draw_card_object_count_from_pair(p) ==
    CASE p.rule = "activated_draw_one_card" -> Node("Number", <<Leaf("1")>>)
      [] p.rule = "activated_draw_counted_cards" -> card_count_from_pair(only_inner(p))
      [] p.rule = "draw_that_many_cards_object" -> Leaf("ThatMany")
      [] OTHER -> Internal
discard_count_from_pair(p) ==
    CASE p.rule = "discard_one_card"      -> Node("Number", <<Leaf("1")>>)
      [] p.rule = "discard_counted_cards" -> card_count_from_pair(only_inner(p))
      [] OTHER -> Internal

write_card_count_object(a) ==
    CASE a.n = "Number" /\ a.c[1].n = "1" -> T("a card")
      [] OTHER -> write_card_count(a) \o T("cards")

(* Keywords. *)
enchant ==
    N("enchant", W("enchant")
      & ( N("enchant_put_onto_battlefield",
            permanent_type & W("put onto the battlefield with this aura"))
        | N("enchant_card_in_zone", permanent_type & W("card in") & article & zone)
        | N("enchant_permanent", permanent_type)
        | N("enchant_creature_type", creature_type)))
protection == N("protection", W("protection from") & color_word)
landwalk   == N("landwalk", basic_land_type & W("walk"))
keyword_ability_name == Atom("keyword_ability_name", <<"flying", "banding">>)
keyword    == enchant | protection | landwalk | keyword_ability_name
keyword_and_or_list == N("keyword_and_or_list", keyword & Star(W("and/or") & keyword))
label_word   == Atom("label_word", <<"left", "right">>)
quoted_label == N("quoted_label", W("\"") & label_word & W("\""))
quoted_label_with_inner_period ==
    N("quoted_label_with_inner_period", W("\"") & label_word & W(". \""))

enchant_object_from_pair(p) ==
    CASE p.rule = "enchant_permanent" -> Node("Permanent", <<permanent_type_from_pair(only_inner(p))>>)
      [] p.rule = "enchant_creature_type" -> Node("CreatureType", <<creature_type_from_pair(only_inner(p))>>)
      [] p.rule = "enchant_card_in_zone" ->
           Node("CardInZone", <<permanent_type_from_pair(Kid(p, 1)), zone_from_pair(Kid(p, 2))>>)
      [] p.rule = "enchant_put_onto_battlefield" ->
           Node("PutOntoBattlefieldByThisAura", <<permanent_type_from_pair(only_inner(p))>>)
      [] OTHER -> Internal
named_keyword_ability_from_str(p) ==
    Read(p, {"keyword_ability_name"}, [flying |-> "Flying", banding |-> "Banding"])
keyword_from_inner_pair(p) ==
    CASE p.rule = "keyword_ability_name" -> Node("Named", <<named_keyword_ability_from_str(p)>>)
      [] p.rule = "landwalk"   -> Node("Landwalk", <<basic_land_type_from_pair(only_inner(p))>>)
      [] p.rule = "protection" -> Node("Protection", <<color_from_pair(only_inner(p))>>)
      [] p.rule = "enchant"    -> Node("Enchant", <<enchant_object_from_pair(only_inner(p))>>)
      [] OTHER -> Internal
attack_restriction_keywords_from_pair(p) ==
    Each(only_inner(p), keyword_from_inner_pair)
RECURSIVE label_from_pair(_)
label_from_pair(p) ==
    CASE p.rule = "label_word" -> Leaf(p.text[1])
      [] p.rule \in {"label_phrase", "quoted_label", "quoted_label_with_inner_period", "quoted_label_pile"} ->
           label_from_pair(only_inner(p))
      [] OTHER -> Internal

write_enchant_object(a) ==
    CASE a.n = "Permanent"    -> permanent_type_name(a.c[1])
      [] a.n = "CreatureType" -> creature_type_name(a.c[1])
      [] a.n = "CardInZone"   ->
           permanent_type_name(a.c[1]) \o T("card in") \o zone_article(a.c[2]) \o zone_name(a.c[2])
      [] a.n = "PutOntoBattlefieldByThisAura" ->
           permanent_type_name(a.c[1]) \o T("put onto the battlefield with this aura")
keyword_ability_name_of(a) == Written(a, [Flying |-> "flying", Banding |-> "banding"])
write_landwalk(a) == basic_land_type_name(a) \o T("walk")
write_keyword(a) ==
    CASE a.n = "Named"      -> keyword_ability_name_of(a.c[1])
      [] a.n = "Landwalk"   -> write_landwalk(a.c[1])
      [] a.n = "Protection" -> T("protection from") \o color_name(a.c[1])
      [] a.n = "Enchant"    -> T("enchant") \o write_enchant_object(a.c[1])
write_keyword_and_or_list(v) == Joined(Parts(v, write_keyword), T("and/or"), T("and/or"))
write_quoted_label(a) == T("\"") \o <<a.n>> \o T("\"")
=============================================================================
