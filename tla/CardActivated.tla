--------------------------- MODULE CardActivated ----------------------------
(***************************************************************************)
(* Activated abilities: costs, effects and the permission to activate.     *)
(***************************************************************************)
EXTENDS CardTriggers

(* Tokens and counters. *)
token_color_from_pair(p) ==
    LET child == only_inner(p)
    IN  CASE child.rule = "color_word"     -> color_from_pair(child)
          [] child.rule = "colorless_word" -> Leaf("Colorless")
          [] OTHER -> Internal
create_token_from_pair(p) ==
    LET numbers == KidsOf(p, "unsigned_number")
        types   == KidsOf(p, "permanent_type")
    IN  Node("TokenDescription",
             << Term(numbers[1]), Term(numbers[2]), FirstOf(p, "token_color", token_color_from_pair),
                FirstOf(p, "creature_type", creature_type_from_pair),
                Vec([i \in 1..Len(types) |-> permanent_type_from_pair(types[i])]),
                FirstOf(p, "token_keyword_clause", LAMBDA k : keyword_from_inner_pair(only_inner(k))),
                FirstOf(p, "token_name_clause", LAMBDA k : Text(only_inner(k))) >>)
Maybe(a, Write(_)) == IF a = None THEN <<>> ELSE Write(a)
write_create_token(a) ==
    T("create a") \o <<a.c[1].n>> \o T("/") \o <<a.c[2].n>>
    \o Maybe(a.c[3], token_color_name) \o Maybe(a.c[4], creature_type_name)
    \o FlattenSeq(Parts(a.c[5], permanent_type_name)) \o T("token")
    \o (IF a.c[6] = None THEN <<>> ELSE T("with") \o write_keyword(a.c[6]))
    \o (IF a.c[7] = None THEN <<>> ELSE T("named") \o Words(a.c[7])) \o T(".")

pt_counter_put_amount_from_pair(p) ==
    LET inner == only_inner(p)
    IN  CASE inner.rule = "put_up_to_counter_amount" -> <<counter_amount_from_pair(only_inner(inner)), Flag(TRUE)>>
          [] inner.rule = "put_exact_counter_amount" -> <<counter_amount_from_pair(only_inner(inner)), Flag(FALSE)>>
          [] inner.rule = "put_single_counter_amount" -> <<Node("Number", <<Leaf("1")>>), Flag(FALSE)>>
          [] OTHER -> <<Internal, Internal>>
write_put_counters_on_source(amount, up_to, counter, source) ==
    LET one == amount = Node("Number", <<Leaf("1")>>) /\ up_to.n = "FALSE"
    IN  T("put") \o When(up_to, "up to")
        \o (IF one THEN T("a") ELSE write_counter_amount(amount)) \o write_pt_modifier(counter)
        \o T(IF one THEN "counter on" ELSE "counters on") \o write_source_object(source) \o T(".")
put_named_counter_on_target_non_basic_land_parts(p) ==
    IF Term(Kid(p, 3)) /= Leaf("Land") THEN <<Internal, Internal>>
    ELSE <<counter_name_from_counter_pair(Kid(p, 1)), basic_land_type_from_pair(only_inner(Kid(p, 2)))>>

---------------------------------------------------------------------------
(* Parts of effects. *)
regenerate_recipient_from_pair(p) ==
    LET object == only_inner(p)
    IN  CASE object.rule = "source_object" -> Node("Source", <<source_object_from_pair(object)>>)
          [] object.rule \in {"permanent_type", "creature_type"} ->
               Node("Enchanted", <<enchanted_object_from_pair(object)>>)
          [] OTHER -> Internal
write_regenerate_recipient(a) ==
    CASE a.n = "TargetCreature" -> T("target creature")
      [] a.n = "Source"         -> write_source_object(a.c[1])
      [] a.n = "Enchanted"      -> T("enchanted") \o write_enchanted_object(a.c[1])
draw_replacement_effect_from_pair(p) ==
    IF p.rule = "filter_top_library_cards"
    THEN Node("FilterTopLibraryCards", <<card_count_from_pair(only_inner(p))>>) ELSE Internal
write_draw_replacement_effect(a) ==
    write_card_count(a.c[1])
    \o T("cards of your library, put all but one of them on the bottom of your library in a random order, then draw a card.")
write_next_card_draw_replacement(a) ==
    T("the next time you would draw a card this turn, instead look at the top")
    \o write_draw_replacement_effect(a)
gain_control_of_target_permanent_for_as_long_as_you_control_source_parts(p) == Terms(p)
target_creature_with_power_or_less_cant_be_blocked_power(p) == numeral(only_inner(p), "unsigned_number")
target_permanent_becomes_basic_land_type_until_source_leaves_parts(p) == Terms(p)
activated_destroy_from_pair(p) == destroy_from_pair(p)
write_target_permanent_becomes_basic_land_type_until_source_leaves(a) ==
    T("target") \o permanent_type_name(a.c[1]) \o T("becomes a") \o basic_land_type_name(a.c[2])
    \o T("until") \o write_source_object(a.c[3]) \o T("leaves the battlefield.")
physical_action_from_pair(p) ==
    CASE p.rule = "if_source_on_battlefield_flip_onto_battlefield_from_height" ->
           Node("Flip", <<Term(Kid(p, 1)), number_word_to_u32(Kid(p, 2))>>)
      [] p.rule = "if_source_turns_over_destroy_touched_nontoken_permanents" -> Of("TurnsOver", p)
      [] p.rule = "then_destroy_source" ->
           Node("ThenDestroySource", <<source_or_name_as_source_object(only_inner(p))>>)
      [] OTHER -> Internal
write_physical_action(a) ==
    CASE a.n = "Flip" ->
           T("if") \o write_source_object(a.c[1])
           \o T("is on the battlefield, flip it onto the battlefield from a height of at least")
           \o u32_to_number_word(a.c[2]) \o T(IF a.c[2].n = "1" THEN "foot" ELSE "feet") \o T(".")
      [] a.n = "TurnsOver" ->
           T("if") \o write_source_object(a.c[1])
           \o T("turns over completely at least once during the flip, destroy all nontoken permanents it touches.")
      [] a.n = "ThenDestroySource" -> T("then destroy") \o write_source_object(a.c[1]) \o T(".")

---------------------------------------------------------------------------
(* Effects. *)
\* The effect of a card or of a land on a permanent.
activated_permanent_effect_from_pair(p) ==
    LET r == p.rule
    IN  CASE r \in {"colored_target_effect", "counter_target_colored_spell"} ->
               LET e == IF r = "colored_target_effect" THEN colored_target_effect_from_pair(p)
                        ELSE colored_target_action_from_pair(only_inner(p))
               IN  CASE e.n = "CounterSpell" -> Node("CounterTargetSpell", <<e.c[1], None>>)
                     [] r = "colored_target_effect" -> Node("DestroyTargetColoredPermanent", e.c)
                     [] OTHER -> Internal
          [] r = "untap_source" -> Of("Untap", p)
          [] r = "untap_target_permanent" -> Of("UntapTargetPermanent", p)
          [] r = "untap_enchanted_object" ->
               Node("UntapEnchanted", <<enchanted_object_from_pair(only_inner(p))>>)
          [] r = "regenerate_source" -> Node("Regenerate", <<regenerate_recipient_from_pair(p)>>)
          [] r = "destroy" -> activated_destroy_from_pair(p)
          [] r = "tap_target_permanent_choice" ->
               Node("TapTargetPermanentChoice", Tail(tap_target_permanent_choice_parts(p)))
          [] OTHER -> Internal
activated_duration_effect_from_pair(p) ==
    LET r == p.rule
    IN  CASE r = "target_creature_with_power_or_less_cant_be_blocked" ->
               Node("TargetCreatureWithPowerOrLessCantBeBlockedThisTurn",
                    <<target_creature_with_power_or_less_cant_be_blocked_power(p)>>)
          [] r = "target_permanent_gains_keyword_until_eot" -> target_permanent_gains_keyword_until_eot_from_pair(p)
          [] r = "activated_enchanted_gets_until_eot" -> Of("EnchantedGetsUntilEndOfTurn", p)
          [] r = "activated_source_gets_until_eot" -> Of("SourceGetsUntilEndOfTurn", p)
          [] r = "activated_source_gains_keyword_until_eot" -> Of("SourceGainsKeywordUntilEndOfTurn", p)
          [] r = "activated_source_becomes_pt_creature_until_end_of_combat" ->
               activated_source_becomes_pt_creature_until_end_of_combat_statement_from_pair(p)
          [] r \in {"activated_direct_damage_effect", "next_damage_event_effect",
                    "next_damage_redirection_effect", "activated_damage_prevention_effect"} ->
               Node("DamageEffect", <<activated_damage_effect_from_pair(p)>>)
          [] OTHER -> Internal
activated_last_effect_from_pair(p) ==
    LET r == p.rule
    IN  CASE r = "put_pt_counters_on_source" ->
               Node("PutCountersOnSource",
                    pt_counter_put_amount_from_pair(Kid(p, 1)) \o <<Term(Kid(p, 2)), Term(Kid(p, 3))>>)
          [] r = "put_named_counter_on_target_non_basic_land" ->
               Node("PutNamedCounterOnTargetNonBasicLand", put_named_counter_on_target_non_basic_land_parts(p))
          [] r = "choose_creature_card_in_hand_payable_by_mana_spent_on_variable" ->
               Of("ChooseCreatureCardInHandPayableByManaSpentOnVariable", p)
          [] r = "choose_target_non_creature_type_creature_active_player_controlled_continuously" ->
               Of("ChooseTargetNonCreatureTypeCreatureActivePlayerControlledContinuouslySinceBeginningOfTurn", p)
          [] r = "target_permanent_becomes_basic_land_type_until_source_leaves" ->
               Node("TargetPermanentBecomesBasicLandTypeUntilSourceLeavesBattlefield",
                    target_permanent_becomes_basic_land_type_until_source_leaves_parts(p))
          [] OTHER -> IF physical_action_from_pair(p) = Internal THEN Internal
                      ELSE Node("PhysicalAction", <<physical_action_from_pair(p)>>)
activated_card_effect_from_pair(p) ==
    LET r == p.rule
    IN  CASE r = "look_at_target_players_hand" -> Leaf("LookAtTargetPlayersHand")
          [] r = "next_card_draw_replacement" ->
               Node("NextCardDrawReplacement", <<draw_replacement_effect_from_pair(only_inner(p))>>)
          [] r = "activated_draw_cards" -> Of("DrawCards", p)
          [] r = "flip_coin" -> Leaf("FlipCoin")
          [] r = "imperative_action_sequence" -> imperative_action_sequence_from_pair(p)
          [] r = "create_token" -> Node("CreateToken", <<create_token_from_pair(p)>>)
          [] r = "target_player_discards_cards" ->
               Node("TargetPlayerDiscardsCards", <<discard_count_from_pair(only_inner(p))>>)
          [] r = "gain_control_of_target_permanent_for_as_long_as_you_control_source" ->
               Node("GainControlOfTargetPermanentForAsLongAsYouControlSource",
                    gain_control_of_target_permanent_for_as_long_as_you_control_source_parts(p))
          [] OTHER -> Internal
activated_effect_from_pair(p) ==
    LET PermanentOrCard(q) == FirstRead(q, activated_permanent_effect_from_pair, activated_card_effect_from_pair)
        DurationOrLast(q)  == FirstRead(q, activated_duration_effect_from_pair, activated_last_effect_from_pair)
    IN  CASE p.rule = "add_mana" -> add_mana_from_pair(p)
          [] p.rule = "add_one_mana_of_any_color" -> Leaf("AddOneManaOfAnyColor")
          [] p.rule = "add_mana_of_any_one_color" -> add_mana_of_any_one_color_statement_from_pair(p)
          [] p.rule = "take_extra_turn_after_this_one" -> Leaf("TakeExtraTurnAfterThisOne")
          [] OTHER -> FirstRead(p, PermanentOrCard, DurationOrLast)

write_activated_damage_or_counter_effect(a) ==
    CASE a.n = "DamageEffect" -> write_activated_damage_effect(a.c[1])
      [] a.n = "PutCountersOnSource" -> write_put_counters_on_source(a.c[1], a.c[2], a.c[3], a.c[4])
      [] a.n = "PutNamedCounterOnTargetNonBasicLand" ->
           T("put a") \o <<a.c[1].n>> \o T("counter on target non-") \o basic_land_type_name(a.c[2]) \o T("land.")
      [] a.n = "ChooseCreatureCardInHandPayableByManaSpentOnVariable" ->
           T("you may choose a creature card in your hand whose mana cost could be paid by some amount of, or all of, the mana you spent on")
           \o T("{") \o <<a.c[1].n>> \o T("} .")
      [] a.n = "TargetPermanentBecomesBasicLandTypeUntilSourceLeavesBattlefield" ->
           write_target_permanent_becomes_basic_land_type_until_source_leaves(a)
      [] a.n = "PhysicalAction" -> write_physical_action(a.c[1])
write_activated_effect_on_permanent(a) ==
    CASE a.n = "GainControlOfTargetPermanentForAsLongAsYouControlSource" ->
           T("gain control of target") \o permanent_type_name(a.c[1])
           \o T("for as long as you control") \o write_source_object(a.c[2]) \o T(".")
      [] a.n = "ChooseTargetNonCreatureTypeCreatureActivePlayerControlledContinuouslySinceBeginningOfTurn" ->
           T("choose target non-") \o creature_type_name(a.c[1])
           \o T("creature the active player has controlled continuously since the beginning of the turn.")
      [] a.n = "TargetCreatureWithPowerOrLessCantBeBlockedThisTurn" ->
           T("target creature with power") \o <<a.c[1].n>> \o T("or less can't be blocked this turn.")
      [] a.n = "TargetPermanentGainsKeywordUntilEndOfTurn" -> write_target_permanent_until_end_of_turn(a)
      [] a.n = "EnchantedGetsUntilEndOfTurn" ->
           write_until_end_of_turn_sentence(T("enchanted") \o permanent_type_name(a.c[1]),
                                            write_gets_pt_modifier_clause(a.c[2]))
      [] a.n = "SourceGetsUntilEndOfTurn" ->
           write_until_end_of_turn_sentence(write_source_object(a.c[1]), write_gets_pt_modifier_clause(a.c[2]))
      [] a.n = "SourceGainsKeywordUntilEndOfTurn" ->
           write_until_end_of_turn_sentence(write_source_object(a.c[1]), write_gains_keyword_clause(a.c[2]))
      [] a.n = "SourceBecomesCreatureUntilEndOfCombat" -> write_source_becomes_creature_until_end_of_combat(a)
      [] OTHER -> write_activated_damage_or_counter_effect(a)
write_activated_effect(a) ==
    CASE a.n = "AddMana" -> write_add_mana_sentence(a.c[1])
      [] a.n = "AddOneManaOfAnyColor" -> T("add one mana of any color.")
      [] a.n = "AddManaOfAnyOneColor" -> T("add") \o u32_to_number_word(a.c[1]) \o T("mana of any one color.")
      [] a.n = "TapTargetPermanentChoice" ->
           write_tap_target_permanent_choice(Node(a.n, <<Flag(FALSE)>> \o a.c))
      [] a.n = "Untap" -> write_untap_sentence(a.c[1])
      [] a.n = "UntapTargetPermanent" -> T("untap target") \o permanent_type_name(a.c[1]) \o T(".")
      [] a.n = "UntapEnchanted" -> T("untap enchanted") \o write_enchanted_object(a.c[1]) \o T(".")
      [] a.n = "TakeExtraTurnAfterThisOne" -> T("take a extra turn after this one.")
      [] a.n = "Regenerate" -> T("regenerate") \o write_regenerate_recipient(a.c[1]) \o T(".")
      [] a.n = "CounterTargetSpell" -> write_counter_target_spell(a.c[1], a.c[2])
      [] a.n = "DestroyTargetColoredPermanent" -> write_colored_target_effect(a)
      [] a.n = "Destroy" -> write_destroy(a.c[1])
      [] a.n = "LookAtTargetPlayersHand" -> T("look at target player's hand.")
      [] a.n = "NextCardDrawReplacement" -> write_next_card_draw_replacement(a.c[1])
      [] a.n = "DrawCards" -> T("draw") \o write_card_count_object(a.c[1]) \o T(".")
      [] a.n = "FlipCoin" -> T("flip a coin.")
      [] a.n = "ImperativeActionSequence" -> write_imperative_action_sequence(a.c[1])
      [] a.n = "CreateToken" -> write_create_token(a.c[1])
      [] a.n = "TargetPlayerDiscardsCards" ->
           T("target player discards") \o write_discard_count(a.c[1]) \o T(".")
      [] OTHER -> write_activated_effect_on_permanent(a)
write_activated_effect_lowercase(a) == write_activated_effect(a)

---------------------------------------------------------------------------
(* Abilities. *)
activated_cost_component_from_pair(p) ==
    CASE p.rule = "mana_cost"   -> Node("Mana", <<mana_cost_from_pair(p)>>)
      [] p.rule = "mana_symbol" -> Node("Mana", <<Vec(<<mana_symbol_from_pair(p)>>)>>)
      [] p.rule = "variable_mana_symbol" -> Node("VariableMana", <<variable_from_mana_symbol_pair(p)>>)
      [] p.rule = "tap_symbol"  -> Leaf("Tap")
      [] p.rule = "sacrifice_source" -> Of("Sacrifice", p)
      [] p.rule = "remove_named_counter_from_source" -> Of("RemoveNamedCounterFromSource", p)
      [] OTHER -> Internal
activated_cost_from_pair(p) ==
    IF p.rule = "activated_cost" THEN Each(p, activated_cost_component_from_pair) ELSE Internal
activated_ability_from_pair(p) ==
    Node("ActivatedAbility", <<activated_cost_from_pair(Kid(p, 1)), activated_effect_from_pair(Kid(p, 2))>>)
\* A mutant: the second permission of the grammar has no tree.
activation_permission_from_pair_owner_only(p) ==
    IF p.rule = "only_sources_owner_may_activate_this_ability"
    THEN Node("OnlySourcesOwner", <<source_object_from_possessive_pair(only_inner(p))>>) ELSE Internal

activation_permission_from_pair(p) ==
    CASE p.rule = "only_sources_owner_may_activate_this_ability" ->
           Node("OnlySourcesOwner", <<source_object_from_possessive_pair(only_inner(p))>>)
      [] p.rule = "activate_only_during_your_upkeep" -> Leaf("ActivateOnlyDuringYourUpkeep")
      [] OTHER -> Internal
activated_ability_with_activation_permission_from_pair(p) ==
    Node("ActivatedAbilityWithActivationPermission",
         <<activated_ability_from_pair(Kid(p, 1)), activation_permission_from_pair(Kid(p, 2))>>)
write_activated_cost(a) ==
    CASE a.n = "Mana"         -> write_mana_cost(a.c[1])
      [] a.n = "VariableMana" -> T("{") \o <<a.c[1].n>> \o T("}")
      [] a.n = "Tap"          -> T("{T}")
      [] a.n = "Sacrifice"    -> T("sacrifice") \o write_source_object(a.c[1])
      [] a.n = "RemoveNamedCounterFromSource" ->
           T("remove a") \o <<a.c[1].n>> \o T("counter from") \o write_source_object(a.c[2])
write_activated_ability(a) ==
    Joined(Parts(a.c[1], write_activated_cost), T(","), T(",")) \o T(":") \o write_activated_effect(a.c[2])
write_activation_permission(a) ==
    IF a.n = "OnlySourcesOwner"
    THEN T("only") \o write_source_object_possessive_without_apostrophe(a.c[1]) \o T("owner may activate this ability.")
    ELSE T("activate only during your upkeep.")

granted_ability_from_pair(p) ==
    CASE p.rule = "activated_ability" -> Wrapped("Activated", activated_ability_from_pair, p)
      [] p.rule \in {"keyword_ability_name", "landwalk", "protection", "enchant"} ->
           Node("Keyword", <<keyword_from_inner_pair(p)>>)
      [] OTHER -> Internal
write_granted_ability(a) ==
    IF a.n = "Keyword" THEN write_keyword(a.c[1]) \o T(".")
                       ELSE T("\"") \o write_activated_ability(a.c[1]) \o T("\"")
other_creature_type_subject_from_pair(p) ==
    LET child == only_inner(p)
    IN  CASE child.rule = "creature_type"        -> <<creature_type_from_pair(child), Leaf("TypeCreatures")>>
          [] child.rule = "creature_type_plural" -> <<creature_type_from_plural_pair(child), Leaf("TypePlural")>>
          [] OTHER -> <<Internal, Internal>>

\* The rules an effect of a flipped coin may have.
is_activated_effect_rule(rule) ==
    rule \in { "add_mana_of_any_one_color", "add_one_mana_of_any_color", "add_mana",
               "tap_target_permanent_choice", "target_permanent_becomes_basic_land_type_until_source_leaves",
               "destroy", "regenerate_source", "colored_target_effect", "counter_target_colored_spell",
               "untap_target_permanent", "untap_source", "untap_enchanted_object",
               "take_extra_turn_after_this_one", "next_card_draw_replacement", "imperative_action_sequence",
               "activated_draw_cards", "flip_coin", "create_token", "look_at_target_players_hand",
               "target_player_discards_cards",
               "gain_control_of_target_permanent_for_as_long_as_you_control_source",
               "target_creature_with_power_or_less_cant_be_blocked",
               "target_permanent_gains_keyword_until_eot",
               "activated_source_becomes_pt_creature_until_end_of_combat",
               "activated_source_gains_keyword_until_eot", "activated_source_gets_until_eot",
               "activated_enchanted_gets_until_eot", "activated_direct_damage_effect",
               "next_damage_event_effect", "next_damage_redirection_effect",
               "activated_damage_prevention_effect", "put_pt_counters_on_source",
               "put_named_counter_on_target_non_basic_land",
               "choose_creature_card_in_hand_payable_by_mana_spent_on_variable",
               "choose_target_non_creature_type_creature_active_player_controlled_continuously",
               "if_source_on_battlefield_flip_onto_battlefield_from_height",
               "if_source_turns_over_destroy_touched_nontoken_permanents", "then_destroy_source" }
if_you_flip_result_effect_from_pair(p) ==
    LET effect == Kid(p, 2)
    IN  IF ~is_activated_effect_rule(effect.rule) THEN Internal
        ELSE Node("IfYouFlipResult", <<coin_flip_result_from_pair(Kid(p, 1)), activated_effect_from_pair(effect)>>)
=============================================================================
