----------------------------- MODULE CardTerms -----------------------------
(***************************************************************************)
(* The terms of card text: types, colours, zones, numbers, mana,           *)
(* modifiers, keywords, the objects an ability speaks of.  For each term:  *)
(* its rules (grammar.pest), the conversion of its pair into the syntax    *)
(* tree (parse.rs, `..._from_pair') and the printing of the tree           *)
(* (unparse.rs, `write_...' and `..._name').  The lexicons are cut to a    *)
(* few words each; "a" stands for both articles and case is ignored.       *)
(***************************************************************************)
EXTENDS Peg, SequencesExt

(***************************************************************************)
(* A syntax tree: the variant and its fields in the order of the type.     *)
(***************************************************************************)
Node(n, c)  == [n |-> n, c |-> c]
Leaf(n)     == Node(n, <<>>)
Vec(s)      == Node("Vec", s)
None        == Leaf("None")
Internal    == Leaf("Internal")      \* ParseError::Internal

Kid(p, i)     == IF i <= Len(p.kids) THEN p.kids[i] ELSE Pair("missing", <<"">>, <<>>)
only_inner(p) == Kid(p, 1)
Each(p, From(_)) == Vec([i \in 1..Len(p.kids) |-> From(p.kids[i])])
\* The kids of one rule, and the first of them if there is one.
KidsOf(p, rule) == SelectSeq(p.kids, LAMBDA k : k.rule = rule)
FirstOf(p, rule, From(_)) ==
    LET ks == KidsOf(p, rule) IN IF ks = <<>> THEN None ELSE From(ks[1])
\* A kid or a list that must be there.
Required(a) == IF a \in {None, Vec(<<>>)} THEN Internal ELSE a
RECURSIVE HasInternal(_)
HasInternal(a) == a = Internal \/ \E i \in 1..Len(a.c) : HasInternal(a.c[i])
\* A variant around what From reads; what the first of two readings reads.
Wrapped(variant, From(_), p) == LET a == From(p) IN IF a = Internal THEN a ELSE Node(variant, <<a>>)
FirstRead(p, A(_), B(_)) == LET a == A(p) IN IF a /= Internal THEN a ELSE B(p)
\* One statement, or several as one.
Compounded(statements) ==
    CASE HasInternal(Vec(statements)) -> Internal
      [] Len(statements) = 1 -> statements[1]
      [] OTHER -> Node("Compound", <<Vec(statements)>>)
Says(p, phrase) == p.text = T(phrase)
Begins(p, phrase) == LET ws == T(phrase)
                     IN  Len(ws) <= Len(p.text) /\ SubSeq(p.text, 1, Len(ws)) = ws
Mentions(p, word) == \E i \in 1..Len(p.text) : p.text[i] = word
Flag(b) == Leaf(IF b THEN "TRUE" ELSE "FALSE")

\* A word read with a table, and written with one.
Read(p, rules, table) ==
    IF p.rule \in rules /\ p.text[1] \in DOMAIN table THEN Leaf(table[p.text[1]]) ELSE Internal
Written(a, table) == T(table[a.n])

\* Printed parts with a separator, the last one with its own.
RECURSIVE Joined(_, _, _)
Joined(parts, sep, last) ==
    CASE parts = <<>>    -> <<>>
      [] Len(parts) = 1  -> parts[1]
      [] Len(parts) = 2  -> parts[1] \o last \o parts[2]
      [] OTHER           -> parts[1] \o sep \o Joined(Tail(parts), sep, last)
Parts(v, Write(_)) == [i \in 1..Len(v.c) |-> Write(v.c[i])]
\* "x", "x or y", "x, y, or z".
Listed(parts, word) ==
    Joined(parts, T(","), IF Len(parts) > 2 THEN T(",") \o T(word) ELSE T(word))

---------------------------------------------------------------------------
(* Types, colours, statuses. *)
article                == W("a")
permanent_type         == Atom("permanent_type", <<"creature", "land", "artifact">>)
permanent_type_plural  == Atom("permanent_type_plural", <<"creatures", "lands", "artifacts">>)
color_word             == Atom("color_word", <<"black", "red">>)
creature_type          == Atom("creature_type", <<"wall", "merfolk">>)
creature_type_plural   == Atom("creature_type_plural", <<"walls", "merfolk">>)
basic_land_type        == Atom("basic_land_type", <<"swamp", "plains">>)
basic_land_type_plural == Atom("basic_land_type_plural", <<"swamps", "plains">>)
non_basic_land_type    == N("non_basic_land_type", W("non-") & basic_land_type)
land_subtype_plural    == Atom("land_subtype_plural", <<"swamps", "plains", "deserts">>)
spell_type             == Atom("spell_type", <<"instant", "sorcery">>)
creature_status        == Atom("creature_status", <<"tapped", "attacking", "untapped">>)
object_status          == N("object_status", creature_status)
zone                   == Atom("zone", <<"graveyard", "ante">>)
owned_zone             == Atom("owned_zone", <<"graveyard", "hand">>)
battlefield_zone       == Atom("battlefield_zone", <<"battlefield">>)
permanent_object       == N("permanent_object", W("permanent"))
rounding_direction     == Atom("rounding_direction", <<"down", "up">>)
rounding               == N("rounding", W("rounded") & rounding_direction)
permanent_controller   == N("permanent_controller", W("you control") | article & W("opponent controls"))

permanent_type_from_pair(p) ==
    Read(p, {"permanent_type"}, [creature |-> "Creature", land |-> "Land", artifact |-> "Artifact"])
permanent_type_from_plural_pair(p) ==
    Read(p, {"permanent_type_plural"}, [creatures |-> "Creature", lands |-> "Land", artifacts |-> "Artifact"])
color_from_pair(p) == Read(p, {"color_word"}, [black |-> "Black", red |-> "Red"])
creature_type_from_pair(p) == Read(p, {"creature_type"}, [wall |-> "Wall", merfolk |-> "Merfolk"])
creature_type_from_plural_pair(p) == Read(p, {"creature_type_plural"}, [walls |-> "Wall", merfolk |-> "Merfolk"])
basic_land_type_from_pair(p) == Read(p, {"basic_land_type"}, [swamp |-> "Swamp", plains |-> "Plains"])
basic_land_type_from_plural_pair(p) == Read(p, {"basic_land_type_plural"}, [swamps |-> "Swamp", plains |-> "Plains"])
land_subtype_from_plural_pair(p) ==
    Read(p, {"land_subtype_plural"}, [swamps |-> "Swamp", plains |-> "Plains", deserts |-> "Desert"])
spell_type_from_pair(p) == Read(p, {"spell_type"}, [instant |-> "Instant", sorcery |-> "Sorcery"])
creature_status_from_pair(p) ==
    Read(p, {"creature_status"}, [attacking |-> "Attacking", tapped |-> "Tapped", untapped |-> "Untapped"])
object_status_from_pair(p) ==
    Read(p, {"object_status"}, [tapped |-> "Tapped", untapped |-> "Untapped", attacking |-> "Attacking"])
zone_from_pair(p) ==
    Read(p, {"zone", "owned_zone", "battlefield_zone"},
         [graveyard |-> "Graveyard", hand |-> "Hand", ante |-> "Ante", battlefield |-> "Battlefield"])
rounding_from_pair(p) ==
    IF p.rule = "rounding"
    THEN Read(only_inner(p), {"rounding_direction"}, [down |-> "Down", up |-> "Up"]) ELSE Internal
permanent_controller_from_pair(p) ==
    CASE p.rule = "permanent_controller" /\ Says(p, "you control") -> Leaf("You")
      [] p.rule = "permanent_controller" /\ Says(p, "a opponent controls") -> Leaf("Opponent")
      [] OTHER -> Internal

permanent_type_name(a) == Written(a, [Creature |-> "creature", Land |-> "land", Artifact |-> "artifact"])
permanent_type_plural_name(a) == Written(a, [Creature |-> "creatures", Land |-> "lands", Artifact |-> "artifacts"])
color_name(a) == Written(a, [Black |-> "black", Red |-> "red"])
creature_type_name(a) == Written(a, [Wall |-> "wall", Merfolk |-> "merfolk"])
creature_type_plural_name(a) == Written(a, [Wall |-> "walls", Merfolk |-> "merfolk"])
basic_land_type_name(a) == Written(a, [Swamp |-> "swamp", Plains |-> "plains"])
basic_land_type_plural_name(a) == Written(a, [Swamp |-> "swamps", Plains |-> "plains"])
land_subtype_plural_name(a) == Written(a, [Swamp |-> "swamps", Plains |-> "plains", Desert |-> "deserts"])
spell_type_name(a) == Written(a, [Instant |-> "instant", Sorcery |-> "sorcery"])
creature_status_name(a) == Written(a, [Attacking |-> "attacking", Tapped |-> "tapped", Untapped |-> "untapped"])
object_status_name(a) == Written(a, [Attacking |-> "attacking", Tapped |-> "tapped", Untapped |-> "untapped"])
zone_name(a) == Written(a, [Graveyard |-> "graveyard", Hand |-> "hand", Ante |-> "ante", Battlefield |-> "battlefield"])
zone_article(a) == Written(a, [Graveyard |-> "a", Hand |-> "a", Ante |-> "the", Battlefield |-> "the"])
rounding_name(a) == Written(a, [Down |-> "down", Up |-> "up"])
write_permanent_controller(a) == Written(a, [You |-> "you control", Opponent |-> "a opponent controls"])

(* Lists of types. *)
permanent_type_plural_list ==
    N("permanent_type_plural_list",
      permanent_type_plural
      & Opt(Star(W(",") & permanent_type_plural) & Opt(W(",")) & W("and") & permanent_type_plural))
permanent_type_choice ==
    N("permanent_type_choice",
      permanent_type & Opt(Star(W(",") & permanent_type) & Opt(W(",")) & W("or") & permanent_type))
spell_type_choice == N("spell_type_choice", spell_type & Star(W("or") & spell_type))

permanent_type_plural_list_from_pair(p) ==
    IF p.rule = "permanent_type_plural_list" THEN Each(p, permanent_type_from_plural_pair) ELSE Internal
permanent_type_choice_from_pair(p) == Each(p, permanent_type_from_pair)

write_permanent_type_plural_list(v) == Listed(Parts(v, permanent_type_plural_name), "and")
write_permanent_type_choice(v) == Listed(Parts(v, permanent_type_name), "or")

---------------------------------------------------------------------------
(* Numbers, mana, modifiers and the definitions of X and Y. *)
unsigned_number == Atom("unsigned_number", <<"2", "1">>)
number_word     == Atom("number_word", <<"two", "one">>)
variable_name   == Atom("variable_name", <<"X", "Y">>)
card_count      == number_word | variable_name
counter_amount  == variable_name | number_word
generic         == Atom("generic", <<"2", "1">>)
color           == Atom("color", <<"B", "R", "C">>)
mana_symbol     == N("mana_symbol", W("{") & (generic | color | variable_name) & W("}"))
mana_cost       == N("mana_cost", Plus(mana_symbol))
tap_symbol      == N("tap_symbol", W("{T}"))
variable_mana_symbol == N("variable_mana_symbol", W("{") & variable_name & W("}"))
signed_number   == Atom("signed_number", <<"+1", "-1">>)
signed_variable == Atom("signed_variable", <<"+X", "-X">>)
pt_modifier     == N("pt_modifier", signed_number & W("/") & signed_number)
pt_counter      == N("pt_counter", pt_modifier & W("counter"))
pt_counters     == N("pt_counters", pt_modifier & W("counters"))
variable_pt_modifier == N("variable_pt_modifier", signed_variable & W("/") & signed_variable)
mixed_pt_modifier ==
    N("mixed_pt_modifier",
      (signed_variable | signed_number) & W("/") & (signed_variable | signed_number))
counter_name    == Alpha("counter_name", <<"charge">>)
named_counter   == N("named_counter", counter_name & W("counter"))
named_counters  == N("named_counters", counter_name & W("counters"))

\* A numeral that fits u32 and a sign with its magnitude are kept as they are.
numeral(p, rule) == IF p.rule = rule THEN Leaf(p.text[1]) ELSE Internal
number_word_to_u32(p) == Read(p, {"number_word"}, [one |-> "1", two |-> "2"])
variable_from_str(p) ==
    IF p.text[1] \in {"X", "Y"} THEN Leaf(p.text[1]) ELSE Internal
mana_symbol_from_pair(p) ==
    LET body == only_inner(p)
    IN  CASE body.rule = "generic"       -> Node("Generic", <<Leaf(body.text[1])>>)
          [] body.rule = "variable_name" -> Node("Variable", <<variable_from_str(body)>>)
          [] body.rule = "color" ->
               Read(body, {"color"}, [B |-> "Black", R |-> "Red", C |-> "Colorless"])
mana_cost_from_pair(p) == Each(p, mana_symbol_from_pair)
variable_from_mana_symbol_pair(p) ==
    IF p.rule = "variable_mana_symbol" THEN variable_from_str(only_inner(p)) ELSE Internal
signed_number_from_pair(p) == numeral(p, "signed_number")
signed_variable_from_pair(p) == numeral(p, "signed_variable")
signed_pt_component_from_pair(p) ==
    CASE p.rule = "signed_number"   -> Node("Number", <<signed_number_from_pair(p)>>)
      [] p.rule = "signed_variable" -> Node("Variable", <<signed_variable_from_pair(p)>>)
      [] OTHER -> Internal
Modifier(p, rule, From(_)) ==
    IF p.rule = rule THEN Node("PtModifier", <<From(Kid(p, 1)), From(Kid(p, 2))>>) ELSE Internal
pt_modifier_from_pair(p) == Modifier(p, "pt_modifier", signed_number_from_pair)
variable_pt_modifier_from_pair(p) == Modifier(p, "variable_pt_modifier", signed_variable_from_pair)
mixed_pt_modifier_from_pair(p) == Modifier(p, "mixed_pt_modifier", signed_pt_component_from_pair)
pt_modifier_from_counter_pair(p) ==
    IF p.rule \in {"pt_counter", "pt_counters"} THEN pt_modifier_from_pair(only_inner(p)) ELSE Internal
counter_name_from_counter_pair(p) ==
    IF p.rule \in {"named_counter", "named_counters"} THEN Leaf(only_inner(p).text[1]) ELSE Internal
card_count_from_pair(p) ==
    CASE p.rule = "number_word"   -> Node("Number", <<number_word_to_u32(p)>>)
      [] p.rule = "variable_name" -> Node("Variable", <<variable_from_str(p)>>)
      [] p.rule = "draw_that_many_cards_object" -> Leaf("ThatMany")
      [] OTHER -> Internal
counter_amount_from_pair(p) ==
    CASE p.rule = "variable_name" -> Node("Variable", <<variable_from_str(p)>>)
      [] p.rule = "number_word"   -> Node("Number", <<number_word_to_u32(p)>>)
      [] OTHER -> Internal

u32_to_number_word(a) == IF a.n = "1" THEN T("one") ELSE T("two")
write_mana_symbol(a) ==
    T("{") \o (CASE a.n \in {"Generic", "Variable"} -> <<a.c[1].n>>
                 [] OTHER -> Written(a, [Black |-> "B", Red |-> "R", Colorless |-> "C"]))
    \o T("}")
write_mana_cost(a) == FlattenSeq(Parts(a, write_mana_symbol))
write_signed_number(a) == <<a.n>>
write_signed_variable(a) == <<a.n>>
write_signed_pt_component(a) == <<a.c[1].n>>
write_pt_modifier(a) == write_signed_number(a.c[1]) \o T("/") \o write_signed_number(a.c[2])
write_variable_pt_modifier(a) == write_signed_variable(a.c[1]) \o T("/") \o write_signed_variable(a.c[2])
write_mixed_pt_modifier(a) == write_signed_pt_component(a.c[1]) \o T("/") \o write_signed_pt_component(a.c[2])
write_card_count(a) ==
    CASE a.n = "Number"   -> u32_to_number_word(a.c[1])
      [] a.n = "Variable" -> <<a.c[1].n>>
      [] a.n = "ThatMany" -> T("that many")
write_counter_amount(a) == IF a.n = "Number" THEN u32_to_number_word(a.c[1]) ELSE <<a.c[1].n>>

its_power == N("its_power", W("its power"))
value_expression ==
      unsigned_number
    | N("half_number_of_basic_lands_you_control",
        W("half the number of") & basic_land_type_plural & W("you control ,") & rounding)
    | N("number_of_permanents_you_control",
        W("the number of") & permanent_type_plural & W("you control"))
    | N("number_of_status_permanents_they_controlled_at_beginning_of_this_turn",
        W("the number of") & object_status & permanent_type_plural
        & W("they controlled at the beginning of this turn"))
    | N("number_of_cards_in_their_hand_minus",
        W("the number of cards in their hand minus") & unsigned_number)
    | N("amount_of_mana_that_player_paid_this_way", W("the amount of mana that player paid this way"))
    | its_power
variable_definition == N("variable_definition", variable_name & W("is") & value_expression)
where_clause ==
    N("where_clause", W("where") & variable_definition & Opt(W(", and") & variable_definition))

value_expression_from_pair(p) ==
    CASE p.rule = "unsigned_number" -> Node("UnsignedNumber", <<numeral(p, "unsigned_number")>>)
      [] p.rule = "half_number_of_basic_lands_you_control" ->
           Node("HalfNumberOfBasicLandsYouControl",
                <<basic_land_type_from_plural_pair(Kid(p, 1)), rounding_from_pair(Kid(p, 2))>>)
      [] p.rule = "its_power" -> Leaf("ItsPower")
      [] p.rule = "number_of_permanents_you_control" ->
           Node("NumberOfPermanentsYouControl", <<permanent_type_from_plural_pair(only_inner(p))>>)
      [] p.rule = "number_of_cards_in_their_hand_minus" ->
           Node("NumberOfCardsInTheirHandMinus", <<numeral(only_inner(p), "unsigned_number")>>)
      [] p.rule = "number_of_status_permanents_they_controlled_at_beginning_of_this_turn" ->
           Node("NumberOfStatusPermanentsTheyControlledAtBeginningOfThisTurn",
                <<object_status_from_pair(Kid(p, 1)), permanent_type_from_plural_pair(Kid(p, 2))>>)
      [] p.rule = "amount_of_mana_that_player_paid_this_way" -> Leaf("AmountOfManaThatPlayerPaidThisWay")
      [] OTHER -> Internal
variable_definition_from_pair(p) ==
    IF p.rule = "variable_definition"
    THEN Node("VariableDefinition", <<variable_from_str(Kid(p, 1)), value_expression_from_pair(Kid(p, 2))>>)
    ELSE Internal
where_clause_from_pair(p) ==
    IF p.rule = "where_clause" THEN Each(p, variable_definition_from_pair) ELSE Internal

write_value_expression(a) ==
    CASE a.n = "UnsignedNumber" -> <<a.c[1].n>>
      [] a.n = "HalfNumberOfBasicLandsYouControl" ->
           T("half the number of") \o basic_land_type_plural_name(a.c[1])
           \o T("you control, rounded") \o rounding_name(a.c[2])
      [] a.n = "ItsPower" -> T("its power")
      [] a.n = "NumberOfPermanentsYouControl" ->
           T("the number of") \o permanent_type_plural_name(a.c[1]) \o T("you control")
      [] a.n = "NumberOfCardsInTheirHandMinus" ->
           T("the number of cards in their hand minus") \o <<a.c[1].n>>
      [] a.n = "NumberOfStatusPermanentsTheyControlledAtBeginningOfThisTurn" ->
           T("the number of") \o object_status_name(a.c[1]) \o permanent_type_plural_name(a.c[2])
           \o T("they controlled at the beginning of this turn")
      [] a.n = "AmountOfManaThatPlayerPaidThisWay" -> T("the amount of mana that player paid this way")
write_variable_definition(a) == <<a.c[1].n>> \o T("is") \o write_value_expression(a.c[2])
write_variable_definitions(v) == Joined(Parts(v, write_variable_definition), T(","), T(", and"))
=============================================================================
