---------------------------- MODULE CardEffects -----------------------------
(***************************************************************************)
(* The effects of spells: from the pairs of their rules to the syntax      *)
(* tree, and from the tree back to text.                                   *)
(***************************************************************************)
EXTENDS CardAbilities

\* Read as the variant that is spelled like the pair.
Spelled(p, forms) ==
    IF \E v \in DOMAIN forms : Says(p, forms[v])
    THEN Leaf(CHOOSE v \in DOMAIN forms : Says(p, forms[v])) ELSE Internal
\* How the pair of a term is converted, and a variant made of the terms of a pair.
Term(p) ==
    CASE p.rule = "permanent_type"         -> permanent_type_from_pair(p)
      [] p.rule = "permanent_type_plural"  -> permanent_type_from_plural_pair(p)
      [] p.rule = "color_word"             -> color_from_pair(p)
      [] p.rule = "creature_type"          -> creature_type_from_pair(p)
      [] p.rule = "creature_type_plural"   -> creature_type_from_plural_pair(p)
      [] p.rule = "creature_status"        -> creature_status_from_pair(p)
      [] p.rule = "basic_land_type"        -> basic_land_type_from_pair(p)
      [] p.rule = "basic_land_type_plural" -> basic_land_type_from_plural_pair(p)
      [] p.rule = "source_object"          -> source_object_from_pair(p)
      [] p.rule = "object_status"          -> object_status_from_pair(p)
      [] p.rule \in {"zone", "owned_zone"} -> zone_from_pair(p)
      [] p.rule = "unsigned_number"        -> numeral(p, "unsigned_number")
      [] p.rule = "number_word"            -> number_word_to_u32(p)
      [] p.rule = "variable_name"          -> variable_from_str(p)
      [] p.rule = "variable_mana_symbol"   -> variable_from_mana_symbol_pair(p)
      [] p.rule = "mana_cost"              -> mana_cost_from_pair(p)
      [] p.rule = "mana_symbol"            -> mana_symbol_from_pair(p)
      [] p.rule = "pt_modifier"            -> pt_modifier_from_pair(p)
      [] p.rule = "variable_pt_modifier"   -> variable_pt_modifier_from_pair(p)
      [] p.rule = "mixed_pt_modifier"      -> mixed_pt_modifier_from_pair(p)
      [] p.rule \in {"pt_counter", "pt_counters"} -> pt_modifier_from_counter_pair(p)
      [] p.rule \in {"named_counter", "named_counters"} -> counter_name_from_counter_pair(p)
      [] p.rule = "where_clause"           -> where_clause_from_pair(p)
      [] p.rule \in {"keyword_ability_name", "landwalk", "protection", "enchant"} -> keyword_from_inner_pair(p)
      [] p.rule = "quoted_label_pile"      -> label_from_pair(p)
      [] p.rule = "that_permanents_controller" -> that_permanents_controller_from_pair(p)
      [] p.rule \in {"activated_draw_one_card", "activated_draw_counted_cards", "draw_that_many_cards_object"} ->
           draw_card_object_count_from_pair(p)
      [] p.rule \in {"discard_one_card", "discard_counted_cards"} -> discard_count_from_pair(p)
      [] p.rule = "proper_name"            -> Text(p)
      [] OTHER -> Internal
Terms(p) == [i \in 1..Len(p.kids) |-> Term(p.kids[i])]
Of(variant, p) == Node(variant, Terms(p))

---------------------------------------------------------------------------
(* Casting: timing, costs, modes. *)
Steps == [CombatDamage |-> "combat damage", DeclareAttackers |-> "declare attackers",
          DeclareBlockers |-> "declare blockers"]
step_from_pair(p) == IF p.rule = "step" THEN Spelled(p, Steps) ELSE Internal
cast_restriction_from_pair(p) ==
    LET timing == only_inner(p)
    IN  CASE timing.rule \in {"before_step", "during_your_step", "during_step"} ->
               Node("CastRestriction", <<Node(timing.rule, <<step_from_pair(only_inner(timing))>>)>>)
          [] timing.rule \in {"during_combat_before_blockers_declared",
                              "during_opponents_turn_before_attackers_declared"} ->
               Node("CastRestriction", <<Leaf(timing.rule)>>)
          [] OTHER -> Internal
write_cast_restriction(a) ==
    T("cast this spell only")
    \o Written(a, [before_step |-> "before the", during_your_step |-> "during your", during_step |-> "during the",
                   during_combat_before_blockers_declared |-> "during combat before blockers are declared",
                   during_opponents_turn_before_attackers_declared |->
                       "during a opponent's turn, before attackers are declared"])
    \o (IF a.c = <<>> THEN <<>> ELSE Written(a.c[1], Steps) \o T("step"))
    \o T(".")
this_spell_costs_mana_more_to_cast_for_each_target_beyond_the_first_from_pair(p) ==
    Of("ThisSpellCostsManaMoreToCastForEachTargetBeyondTheFirst", p)
spell_additional_cost_from_pair(p) ==
    IF p.rule = "sacrifice_permanent_cost" THEN Of("SacrificePermanent", p) ELSE Internal
as_additional_cost_to_cast_this_spell_from_pair(p) ==
    Node("AsAdditionalCostToCastThisSpell", <<spell_additional_cost_from_pair(only_inner(p))>>)
write_spell_additional_cost(a) == T("sacrifice a") \o permanent_type_name(a.c[1])
spend_only_color_mana_on_variable_from_pair(p) == Of("SpendOnlyColorManaOnVariable", p)
variable_cant_be_number_from_pair(p) == Of("VariableCantBeNumber", p)

RECURSIVE life_gain_amount_from_pair(_)
life_gain_amount_from_pair(p) ==
    LET amount == only_inner(p)
    IN  CASE amount.rule \in {"life_gain_amount", "life_gain_fixed_amount"} -> life_gain_amount_from_pair(amount)
          [] amount.rule = "unsigned_number" -> Node("Number", <<Term(amount)>>)
          [] amount.rule = "variable_name" -> Node("Variable", <<Term(amount)>>)
          [] amount.rule = "life_gain_equal_to_its_power" -> Leaf("EqualToItsPower")
          [] OTHER -> Internal
target_player_gains_life_from_pair(p) == Node("TargetPlayerGainsLife", <<life_gain_amount_from_pair(p)>>)
its_controller_gains_life_from_pair(p) == Node("ItsControllerGainsLife", <<life_gain_amount_from_pair(p)>>)
write_life_amount(a) ==
    IF a.n = "EqualToItsPower" THEN T("life equal to its power") ELSE <<a.c[1].n>> \o T("life")
write_target_player_gains_life(a) == T("target player gains") \o write_life_amount(a) \o T(".")

counter_unless_cost_from_pair(p) ==
    LET condition_pair == only_inner(p)
    IN  CASE condition_pair.rule = "mana_cost" -> Node("ItsControllerPays", <<Term(condition_pair)>>)
          [] condition_pair.rule = "variable_name" -> Node("WithManaValue", <<Term(condition_pair)>>)
          [] OTHER -> Internal
counter_target_spell_from_pair(p) ==
    Node("CounterTargetSpell",
         << FirstOf(p, "color_word", color_from_pair),
            FirstOf(p, "counter_unless_cost", counter_unless_cost_from_pair) >>)
write_counter_target_spell_condition(a) ==
    IF a.n = "ItsControllerPays" THEN T("unless its controller pays") \o write_mana_cost(a.c[1])
                                 ELSE T("with mana value") \o <<a.c[1].n>>
\* A mutant: the condition is not printed.
write_counter_target_spell_always(color_field, unless) ==
    T("counter target") \o (IF color_field = None THEN <<>> ELSE color_name(color_field)) \o T("spell.")

write_counter_target_spell(color_field, unless) ==
    T("counter target") \o (IF color_field = None THEN <<>> ELSE color_name(color_field)) \o T("spell")
    \o (IF unless = None THEN <<>> ELSE write_counter_target_spell_condition(unless)) \o T(".")

colored_target_action_from_pair(p) ==
    CASE p.rule = "counter_target_colored_spell_action" -> Of("CounterSpell", p)
      [] p.rule = "destroy_target_colored_permanent_action" -> Of("DestroyPermanent", only_inner(p))
      [] OTHER -> Internal
colored_target_effect_from_pair(p) == colored_target_action_from_pair(only_inner(p))
write_colored_target_effect(a) ==
    IF a.n = "CounterSpell" THEN T("counter target") \o color_name(a.c[1]) \o T("spell.")
                            ELSE T("destroy target") \o color_name(a.c[1]) \o T("permanent.")
modal_mode_from_pair(p) ==
    LET effect == only_inner(p)
        colored == colored_target_effect_from_pair(effect)
    IN  CASE effect.rule = "colored_target_effect" ->
               IF colored.n = "CounterSpell" THEN Node("CounterTargetSpell", <<colored.c[1], None>>)
                                             ELSE Node("DestroyTargetColoredPermanent", colored.c)
          [] effect.rule = "target_player_gains_life" ->
               Node("TargetPlayerGainsLife", <<life_gain_amount_from_pair(effect)>>)
          [] effect.rule = "damage_prevention_effect_this_turn" ->
               Node("PreventDamageThisTurn", <<damage_prevention_effect_from_this_turn_pair(effect)>>)
          [] OTHER -> Internal
modal_choice_from_pair(p) ==
    LET modes == KidsOf(p, "modal_mode")
    IN  Node("ModalChoice", <<Vec([i \in 1..Len(modes) |-> modal_mode_from_pair(modes[i])])>>)
write_modal_mode(a) ==
    CASE a.n = "CounterTargetSpell" -> write_counter_target_spell(a.c[1], a.c[2])
      [] a.n = "DestroyTargetColoredPermanent" -> write_colored_target_effect(a)
      [] a.n = "TargetPlayerGainsLife" -> write_target_player_gains_life(a.c[1])
      [] a.n = "PreventDamageThisTurn" -> write_damage_prevention_effect(a.c[1])
write_modal_choice(v) ==
    T("choose one --") \o FlattenSeq([i \in 1..Len(v.c) |-> T("\n *") \o write_modal_mode(v.c[i])])

---------------------------------------------------------------------------
(* Zones, copies, draws and discards. *)
you_own_target_card_in_zone_from_pair(p) == Of("YouOwnTargetCardInZone", p)
return_destination_from_pair(p) ==
    LET z == zone_from_pair(only_inner(p))
    IN  CASE p.rule /= "return_destination_zone" -> Internal
          [] Begins(p, "your") -> Node("YourZone", <<z>>)
          [] Begins(p, "the") /\ z.n = "Battlefield" -> Leaf("TheBattlefield")
          [] Begins(p, "its owner's") -> Node("ItsOwnersZone", <<z>>)
          [] OTHER -> Internal
return_target_card_from_your_zone_to_zone_from_pair(p) ==
    Node("ReturnTargetCardFromYourZoneToZone",
         << FirstOf(only_inner(p), "permanent_type", permanent_type_from_pair),
            IF Len(p.kids) = 2 THEN None ELSE zone_from_pair(Kid(p, 2)),
            return_destination_from_pair(Last(p.kids)) >>)
copy_target_spell_except_copy_is_color_from_pair(p) ==
    Node("CopyTargetSpellExceptCopyIsColor", <<Each(Kid(p, 1), spell_type_from_pair), Term(Kid(p, 2))>>)
write_spell_type_choice(v) == Joined(Parts(v, spell_type_name), T("or"), T("or"))
draw_cards_from_pair(p) == Of("TargetPlayerDrawsCards", p)
draw_cards_statement_from_pair(p) == Of("DrawCards", p)
draw_that_many_cards_replacement_result_from_pair(p) == Of("DrawCards", p)
draw_cards_trigger_count_from_pair(p) == Term(only_inner(p))
you_may_draw_cards_statement_from_pair(p) ==
    Node("YouMayDrawCards", <<draw_cards_trigger_count_from_pair(only_inner(p))>>)
look_at_top_cards_of_target_players_library_then_put_them_back_in_any_order_from_pair(p) ==
    Node("LookAtTopCardsOfTargetPlayersLibraryThenPutThemBackInAnyOrder",
         <<card_count_from_pair(only_inner(p))>>)
DiscardActors == [TargetPlayer |-> "target player", ThatPlayer |-> "that player",
                  EachPlayer |-> "each player", You |-> "you"]
player_discards_cards_from_pair(p) ==
    LET actors == {v \in DOMAIN DiscardActors : Begins(p, DiscardActors[v])}
        ending == T("at random.")
    IN  IF actors = {} THEN Internal
        ELSE Node("PlayerDiscardsCards",
                  << Leaf(CHOOSE v \in actors : TRUE), discard_count_from_pair(only_inner(p)),
                     Flag(IsSuffix(ending, p.text)) >>)
write_player_discard_actor(a) == Written(a, DiscardActors)
write_discard_count(a) == write_card_count_object(a)

HandPlayers == [Player |-> "target player's", Opponent |-> "target opponent's"]
target_hand_player_from_pair(p) == Spelled(p, HandPlayers)
imperative_action_from_pair(p) ==
    CASE p.rule = "look_at_target_hand_action" ->
           Node("LookAtTargetHand", <<target_hand_player_from_pair(only_inner(p))>>)
      [] p.rule = "discard_your_hand_action" ->
           IF p.kids = <<>> THEN Leaf("DiscardYourHand") ELSE Of("DiscardCards", p)
      [] p.rule = "choose_card_from_it_action" -> Leaf("ChooseCardFromIt")
      [] p.rule = "ante_top_card_of_your_library_action" -> Leaf("AnteTopCardOfYourLibrary")
      [] p.rule = "search_your_library_for_a_card_action" -> Leaf("SearchYourLibraryForACard")
      [] p.rule = "put_that_card_into_your_hand_action" -> Leaf("PutThatCardIntoYourHand")
      [] p.rule = "shuffle_action" -> Leaf("Shuffle")
      [] p.rule = "draw_cards_action" -> Of("DrawCards", p)
      [] p.rule = "tap_source_action" -> Of("TapSource", p)
      [] p.rule = "sacrifice_permanent_of_opponents_choice_action" ->
           Of("SacrificePermanentOfOpponentsChoice", p)
      [] OTHER -> Internal
imperative_action_sequence_from_pair(p) ==
    Node("ImperativeActionSequence", <<Each(p, imperative_action_from_pair)>>)
write_imperative_action(a) ==
    CASE a.n = "LookAtTargetHand" -> T("look at") \o Written(a.c[1], HandPlayers) \o T("hand")
      [] a.n = "ChooseCardFromIt" -> T("choose a card from it")
      [] a.n = "DiscardYourHand" -> T("discard your hand")
      [] a.n = "AnteTopCardOfYourLibrary" -> T("ante the top card of your library")
      [] a.n = "SearchYourLibraryForACard" -> T("search your library for a card")
      [] a.n = "PutThatCardIntoYourHand" -> T("put that card into your hand")
      [] a.n = "Shuffle" -> T("shuffle")
      [] a.n = "DrawCards" -> T("draw") \o write_card_count_object(a.c[1])
      [] a.n = "DiscardCards" -> T("discard") \o write_discard_count(a.c[1])
      [] a.n = "TapSource" -> T("tap") \o write_source_object(a.c[1])
      [] a.n = "SacrificePermanentOfOpponentsChoice" ->
           T("sacrifice a") \o permanent_type_name(a.c[1]) \o T("of a opponent's choice")
write_imperative_action_sequence(v) ==
    LET parts == Parts(v, write_imperative_action)
        looks == Len(v.c) = 2 /\ v.c[1].n = "LookAtTargetHand" /\ v.c[2].n = "ChooseCardFromIt"
    IN  (IF looks THEN parts[1] \o T("and") \o parts[2] ELSE Joined(parts, T(","), T(", then"))) \o T(".")
write_trigger_action_list(v) == Joined(Parts(v, write_imperative_action), T(","), T("and"))

---------------------------------------------------------------------------
(* What each player does, and what the players do in the same way. *)
equalized_permanent_type_from_pair(p) ==
    LET chosen == permanent_type_from_plural_pair(Kid(p, 1))
    IN  IF chosen = permanent_type_from_plural_pair(Kid(p, 2)) THEN chosen ELSE Internal
each_player_equalizes_controlled_permanents_from_pair(p) ==
    Node("EachPlayerEqualizesControlledPermanents", <<equalized_permanent_type_from_pair(p)>>)
each_player_action_from_pair(p) ==
    CASE p.rule = "each_player_antes_top_card_of_their_library_action" -> Leaf("AnteTopCardOfTheirLibrary")
      [] p.rule = "each_player_shuffles_their_hand_and_graveyard_into_their_library_action" ->
           Leaf("ShuffleTheirHandAndGraveyardIntoTheirLibrary")
      [] p.rule = "each_player_discards_their_hand_action" -> Leaf("DiscardTheirHand")
      [] p.rule = "each_player_equalizes_controlled_permanents" ->
           Node("EqualizeControlledPermanents", <<equalized_permanent_type_from_pair(p)>>)
      [] p.rule = "draw_cards_action" -> Of("DrawCards", p)
      [] OTHER -> Internal
each_player_performs_action_from_pair(p) ==
    Node("EachPlayerPerformsAction", <<Each(only_inner(p), each_player_action_from_pair)>>)
write_equalize_controlled_permanents_action(a) ==
    T("chooses a number of") \o permanent_type_plural_name(a)
    \o T("they control equal to the number of") \o permanent_type_plural_name(a)
    \o T("controlled by the player who controls the fewest, then sacrifices the rest")
write_each_player_action(a) ==
    CASE a.n = "AnteTopCardOfTheirLibrary" -> T("antes the top card of their library")
      [] a.n = "ShuffleTheirHandAndGraveyardIntoTheirLibrary" ->
           T("shuffles their hand and graveyard into their library")
      [] a.n = "DiscardTheirHand" -> T("discards their hand")
      [] a.n = "EqualizeControlledPermanents" -> write_equalize_controlled_permanents_action(a.c[1])
      [] a.n = "DrawCards" -> T("draws") \o write_card_count_object(a.c[1])
write_each_player_action_sequence(v) == Joined(Parts(v, write_each_player_action), T(","), T(", then"))

balance_same_way_action_from_pair(p) ==
    CASE p.rule = "discard_cards_action" -> Leaf("DiscardCards")
      [] p.rule = "sacrifice_permanents_action" ->
           Node("SacrificePermanents", <<permanent_type_from_plural_pair(only_inner(p))>>)
      [] OTHER -> Internal
players_do_actions_the_same_way_from_pair(p) ==
    Node("PlayersDoActionsTheSameWay", <<Each(p, balance_same_way_action_from_pair)>>)
write_same_way_action(a) ==
    IF a.n = "DiscardCards" THEN T("discard cards") ELSE T("sacrifice") \o permanent_type_plural_name(a.c[1])
write_same_way_actions(v) == Joined(Parts(v, write_same_way_action), T(","), T("and"))
write_sacrifice_permanents_object(a) ==
    IF a.n = "Permanents" THEN T("permanents") ELSE permanent_type_plural_name(a.c[1])
=============================================================================
