------------------------------ MODULE CardText ------------------------------
(***************************************************************************)
(* Card text as mtg-grammar's library reads and prints it: `parse' (pest   *)
(* and the conversion of its pairs into a Statement) and `unparse'.        *)
(*                                                                         *)
(* The system is a card that is written line by line.  After every line    *)
(* the text so far is parsed, printed, and parsed again.                   *)
(***************************************************************************)
EXTENDS CardStatics

---------------------------------------------------------------------------
(* Statements without parameters: their rules, their texts. *)
FixedStatementRules ==
    [ ante_play_restriction |-> "AntePlayRestriction",
      exchange_that_card_with_top_card_of_your_library |-> "ExchangeThatCardWithTopCardOfYourLibrary",
      you_may_choose_new_targets_for_the_copy |-> "YouMayChooseNewTargetsForTheCopy",
      if_you_cant_you_lose_the_game |-> "IfYouCantYouLoseTheGame",
      flip_coin |-> "FlipCoin",
      spell_resolution_duration |-> "SpellResolutionDuration",
      then_that_player_loses_unspent_mana_and_you_add_mana_lost_this_way |->
        "ThenThatPlayerLosesUnspentManaAndYouAddManaLostThisWay",
      take_extra_turn_after_this_one |-> "TakeExtraTurnAfterThisOne",
      you_may_have_that_player_shuffle |-> "YouMayHaveThatPlayerShuffle",
      if_face_down_spell_creature_would_assign_or_deal_damage_or_tap_turn_face_up_instead |->
        "IfFaceDownSpellCreatureWouldAssignOrDealDamageOrTapTurnFaceUpInstead",
      activate_only_during_your_upkeep |-> "ActivateOnlyDuringYourUpkeep",
      activate_only_during_combat |-> "ActivateOnlyDuringCombat",
      activate_only_during_your_turn_and_only_once_each_turn |-> "ActivateOnlyDuringYourTurnAndOnlyOnceEachTurn",
      activate_only_during_your_turn |-> "ActivateOnlyDuringYourTurn",
      activate_only_during_opponents_turn_before_attackers_declared |->
        "ActivateOnlyDuringOpponentsTurnBeforeAttackersDeclared",
      activate_only_as_sorcery |-> "ActivateOnlyAsSorcery",
      ignore_this_effect_for_each_creature_player_didnt_control_continuously |->
        "IgnoreThisEffectForEachCreaturePlayerDidntControlContinuouslySinceBeginningOfTurn" ]
FixedStatements ==
    [ AntePlayRestriction |-> "remove this card from your deck before playing if you're not playing for ante.",
      ExchangeThatCardWithTopCardOfYourLibrary |-> "exchange that card with the top card of your library.",
      YouMayChooseNewTargetsForTheCopy |-> "you may choose new targets for the copy.",
      IfYouCantYouLoseTheGame |-> "if you can't, you lose the game.",
      FlipCoin |-> "flip a coin.",
      SpellResolutionDuration |-> "that spell is resolving",
      ThenThatPlayerLosesUnspentManaAndYouAddManaLostThisWay |->
        "then that player loses all unspent mana and you add the mana lost this way.",
      TakeExtraTurnAfterThisOne |-> "take a extra turn after this one.",
      YouMayHaveThatPlayerShuffle |-> "you may have that player shuffle.",
      IfFaceDownSpellCreatureWouldAssignOrDealDamageOrTapTurnFaceUpInstead |->
        "if the creature that spell becomes as it resolves has not been turned face up and would assign or deal damage, be dealt damage, or become tapped, instead it's turned face up and assigns or deals damage, is dealt damage, or becomes tapped.",
      ActivateOnlyDuringYourUpkeep |-> "activate only during your upkeep.",
      ActivateOnlyDuringCombat |-> "activate only during combat.",
      ActivateOnlyDuringYourTurnAndOnlyOnceEachTurn |-> "activate only during your turn and only once each turn.",
      ActivateOnlyDuringYourTurn |-> "activate only during your turn.",
      ActivateOnlyDuringOpponentsTurnBeforeAttackersDeclared |->
        "activate only during a opponent's turn, before attackers are declared.",
      ActivateOnlyAsSorcery |-> "activate only as a sorcery.",
      AddOneManaOfAnyColor |-> "add one mana of any color.",
      IgnoreThisEffectForEachCreaturePlayerDidntControlContinuouslySinceBeginningOfTurn |->
        "ignore this effect for each creature the player didn't control continuously since the beginning of the turn." ]

---------------------------------------------------------------------------
(* Reading a statement: the arms of the source in six groups. *)
payment_failure_tap_mana_sources_from_pair(p) ==
    Node("TapAllPermanentsAndPlayerLosesUnspentMana",
         <<Leaf("ThatPlayer")>> \o parse_payment_failure_tap_mana_sources(p))

spell_statement_from_pair(p) ==
    LET r == p.rule
    IN  CASE r = "mana_cost" -> Wrapped("ManaCost", mana_cost_from_pair, p)
          [] r = "modal_choice" -> modal_choice_from_pair(p)
          [] r = "modal_mode" -> Node("ModalChoice", <<Vec(<<modal_mode_from_pair(p)>>)>>)
          [] r = "cast_restriction" -> cast_restriction_from_pair(p)
          [] r = "you_own_target_card_in_zone" -> you_own_target_card_in_zone_from_pair(p)
          [] r = "return_target_card_from_your_zone_to_zone" ->
               return_target_card_from_your_zone_to_zone_from_pair(p)
          [] r \in {"return_enchanted_card_and_attach", "unless_you_pay_mana_do_actions"} ->
               Wrapped("TriggerEffect", trigger_effect_from_pair, p)
          [] r = "copy_target_spell_except_copy_is_color" -> copy_target_spell_except_copy_is_color_from_pair(p)
          [] r = "label_phrase" -> Wrapped("Label", label_from_pair, p)
          [] r \in {"ante_top_card_of_your_library_action", "tap_source_action"} ->
               Node("ImperativeActionSequence", <<Vec(<<imperative_action_from_pair(p)>>)>>)
          [] r = "sacrifice_source" -> Node("TriggerEffect", <<Of("SacrificeSource", p)>>)
          [] r = "sacrifice_permanents_action" ->
               Wrapped("TriggerEffect", sacrifice_permanents_action_from_pair, p)
          [] r = "imperative_action_sequence" -> imperative_action_sequence_from_pair(p)
          [] r = "tap_target_permanent_choice" -> tap_target_permanent_choice_statement_from_pair(p)
          [] r = "counter_target_spell" -> counter_target_spell_from_pair(p)
          [] r = "as_additional_cost_to_cast_this_spell" -> as_additional_cost_to_cast_this_spell_from_pair(p)
          [] r = "this_spell_costs_mana_more_to_cast_for_each_target_beyond_the_first" ->
               this_spell_costs_mana_more_to_cast_for_each_target_beyond_the_first_from_pair(p)
          [] r = "destroy" -> destroy_from_pair(p)
          [] r = "exile" -> exile_from_pair(p)
          [] r = "regenerate_target_creature" -> Node("Regenerate", <<Leaf("TargetCreature")>>)
          [] r = "regenerate_source" -> Wrapped("Regenerate", regenerate_recipient_from_pair, p)
          [] OTHER -> Internal
damage_statement_from_pair(p) ==
    LET r == p.rule
    IN  CASE r = "damage_trigger_effect_sequence" -> damage_trigger_effect_sequence_from_pair(p)
          [] r = "damage_event_statement" -> damage_event_statement_from_pair(p)
          [] r = "next_card_draw_replacement" ->
               Wrapped("NextCardDrawReplacement", draw_replacement_effect_from_pair, only_inner(p))
          [] r = "next_damage_event_effect" -> Wrapped("DamageEffect", next_damage_event_effect_from_pair, p)
          [] r = "next_damage_redirection_effect" ->
               Wrapped("DamageEffect", next_damage_redirection_effect_from_pair, p)
          [] r = "damage_prevention_effect" -> damage_prevention_effect_statement_from_pair(p)
          [] r = "for_each_damage_prevented_by_removing_pt_counter" ->
               for_each_damage_prevented_by_removing_pt_counter_from_pair(p)
          [] r = "spend_only_color_mana_on_variable" -> spend_only_color_mana_on_variable_from_pair(p)
          [] r = "variable_definition" -> Wrapped("VariableDefinition", variable_definition_from_pair, p)
          [] r = "variable_name" -> Wrapped("VariableName", variable_from_str, p)
          [] r \in {"unsigned_number", "half_number_of_basic_lands_you_control", "number_of_permanents_you_control",
                    "number_of_status_permanents_they_controlled_at_beginning_of_this_turn",
                    "number_of_cards_in_their_hand_minus", "amount_of_mana_that_player_paid_this_way",
                    "its_power"} -> Wrapped("ValueExpression", value_expression_from_pair, p)
          [] is_condition_rule(r) -> Wrapped("Condition", condition_from_pair, p)
          [] r \in {"it_wasnt_first_permanent_you_played_this_turn",
                    "this_card_in_your_graveyard_with_cards_above_it"} ->
               Wrapped("InterveningIf", intervening_if_from_pair, p)
          [] r = "if_you_pay_source_deals_damage" -> if_you_pay_source_deals_damage_from_pair(p)
          [] r = "as_source_enters_you_lose_life_equal_to_your_life_total" ->
               as_source_enters_you_lose_life_equal_to_your_life_total_from_pair(p)
          [] r = "you_gain_life_equal_damage" -> you_gain_life_equal_damage_from_pair(p)
          [] r = "if_you_cant_source_deals_damage_to_you" -> if_you_cant_source_deals_damage_to_you_from_pair(p)
          [] r = "if_you_flip_result_effect" -> if_you_flip_result_effect_from_pair(p)
          [] r = "create_token" -> Wrapped("CreateToken", create_token_from_pair, p)
          [] r = "it_cant_be_regenerated" -> it_cant_be_regenerated_from_pair(p)
          [] r = "if_its_permanent_cant_be_regenerated_and_would_die_exile_instead_this_turn" ->
               if_its_permanent_cant_be_regenerated_and_would_die_exile_instead_this_turn_from_pair(p)
          [] r = "that_permanents_controller_may_attach_this_aura_to_permanent_of_their_choice" ->
               that_permanents_controller_may_attach_this_aura_to_permanent_of_their_choice_from_pair(p)
          [] r = "tap_enchanted_object" ->
               Wrapped("TapEnchanted", enchanted_object_from_tap_enchanted_object_pair, p)
          [] r = "untap_target_permanent" -> Of("UntapTargetPermanent", p)
          [] r = "untap_enchanted_object" ->
               Wrapped("UntapEnchanted", enchanted_object_from_pair, only_inner(p))
          [] OTHER -> Internal
player_statement_from_pair(p) ==
    LET r == p.rule
    IN  CASE r = "tap_all_permanents_then_mana_loss" -> tap_all_permanents_then_mana_loss_from_pair(p)
          [] r = "payment_failure_tap_mana_sources" -> payment_failure_tap_mana_sources_from_pair(p)
          [] r = "player_payment_failure" -> player_payment_failure_from_pair(p)
          [] r = "target_player_activates_mana_ability_of_each_permanent_they_control" ->
               target_player_activates_mana_ability_of_each_permanent_they_control_from_pair(p)
          [] r = "control_player_effect" -> control_player_statement_from_pair(p)
          [] r = "control_duration" -> Wrapped("ControlPlayerDuration", control_duration_from_pair, p)
          [] r = "control_player_condition" ->
               Wrapped("ControlPlayerCondition", control_player_condition_from_pair, p)
          [] r = "referenced_card_play_instruction" -> referenced_card_play_instruction_from_pair(p)
          [] r = "mana_ability_activation_limit" -> mana_ability_activation_limit_from_pair(p)
          [] r = "activation_limit_context" ->
               Wrapped("ActivationLimitContext", activation_limit_context_from_pair, p)
          [] r = "mana_ability_source_limit" ->
               Wrapped("ManaAbilitySourceLimit", mana_ability_source_limit_from_pair, p)
          [] r = "produced_mana_spending_limit" ->
               Wrapped("ProducedManaSpendingLimit", produced_mana_spending_limit_from_pair, p)
          [] r = "mana_spending_purpose" -> Wrapped("ManaSpendingPurpose", mana_spending_purpose_from_pair, p)
          [] r = "conditional_control_player_effect" -> conditional_control_player_effect_from_pair(p)
          [] r = "player_loses_life" -> player_loses_life_from_pair(p)
          [] r = "life_loss_player" -> Wrapped("LifeLossPlayer", life_loss_player_from_pair, p)
          [] r = "player_may_pay_mana" -> player_may_pay_mana_statement_from_pair(p)
          [] r = "pay_mana_player" -> Wrapped("PayManaPlayer", pay_mana_player_from_pair, p)
          [] r = "pay_mana_amount" -> Wrapped("PayManaAmount", pay_mana_amount_from_pair, p)
          [] r = "target_player_gains_life" -> target_player_gains_life_from_pair(p)
          [] r = "its_controller_gains_life" -> its_controller_gains_life_from_pair(p)
          [] r = "if_you_would_event_you_may_skip_that_instead" ->
               if_you_would_event_you_may_skip_that_instead_from_pair(p)
          [] r = "variable_cant_be_number" -> variable_cant_be_number_from_pair(p)
          [] r = "look_at_top_cards_of_target_players_library_then_put_them_back_in_any_order" ->
               look_at_top_cards_of_target_players_library_then_put_them_back_in_any_order_from_pair(p)
          [] OTHER -> Internal
\* The effects of triggered abilities that are statements as well.
TriggerEffectStatements ==
    { "you_lose_the_game", "you_gain_life", "that_player_adds_mana_of_any_type_that_permanent_produced",
      "its_controller_adds_an_additional_mana", "that_player_draws_an_additional_card",
      "you_may_have_source_become_copy_of_target", "sacrifice_permanent_other_than_source",
      "sacrifice_source_effect", "sacrifice_source_unless_you_pay", "sacrifice_that_many_nontoken_permanents",
      "you_may_remove_named_counter_from_source", "delayed_remove_all_named_counters_from_linked_land",
      "loses_and_gains_keyword", "source_gains_static_ability", "remove_pt_counter_from_it",
      "that_creatures_controller_sacrifices_it", "their_controllers_sacrifice_them",
      "you_may_put_this_card_onto_the_battlefield", "one_named_counter_on_source", "that_many_named_counters",
      "one_named_counter_for_each_permanent_died_this_turn",
      "defending_player_divides_creatures_without_keyword_into_labeled_piles" }
card_statement_from_pair(p) ==
    LET r == p.rule
    IN  CASE r \in TriggerEffectStatements -> Wrapped("TriggerEffect", trigger_effect_from_pair, p)
          [] r = "put_named_counters_on_source" ->
               Wrapped("TriggerEffect", put_named_counters_on_source_from_pair, p)
          [] r = "draw_cards" -> draw_cards_from_pair(p)
          [] r \in {"draw_cards_action", "activated_draw_cards"} -> draw_cards_statement_from_pair(p)
          [] r = "you_may_draw_cards" -> you_may_draw_cards_statement_from_pair(p)
          [] r = "choose_creature_card_in_hand_payable_by_mana_spent_on_variable" ->
               choose_creature_card_in_hand_payable_by_mana_spent_on_variable_statement_from_pair(p)
          [] r = "choose_target_non_creature_type_creature_active_player_controlled_continuously" ->
               choose_target_non_creature_type_creature_active_player_controlled_continuously_statement_from_pair(p)
          [] r = "put_pt_counters_on_source" -> activated_effect_from_pair(p)
          [] r = "put_named_counter_on_target_non_basic_land" ->
               Node("PutNamedCounterOnTargetNonBasicLand", put_named_counter_on_target_non_basic_land_parts(p))
          [] r = "draw_that_many_cards_replacement_result" -> draw_that_many_cards_replacement_result_from_pair(p)
          [] r \in {"player_discards_cards", "target_player_discards_cards_at_random"} ->
               player_discards_cards_from_pair(p)
          [] r = "gain_control_of_target_permanent_for_as_long_as_you_control_source" ->
               Node("GainControlOfTargetPermanentForAsLongAsYouControlSource",
                    gain_control_of_target_permanent_for_as_long_as_you_control_source_parts(p))
          [] r = "add_mana_of_any_one_color" -> add_mana_of_any_one_color_statement_from_pair(p)
          [] r = "add_mana" -> add_mana_from_pair(p)
          [] r = "until_eot_you_may_pay_cost_at_timing" -> until_eot_you_may_pay_cost_at_timing_from_pair(p)
          [] r = "if_you_do_effect" -> if_you_do_effect_from_pair(p)
          [] r = "if_you_do_gain_life_fragment" ->
               Wrapped("IfYouDoGainLife", if_you_do_gain_life_amount_from_pair, p)
          [] r = "if_you_do_cast_that_card_face_down_without_paying_mana_cost" ->
               if_you_do_cast_that_card_face_down_without_paying_mana_cost_from_pair(p)
          [] r = "change_text_of_target_spell_or_permanent_replacing_basic_land_type" ->
               change_text_of_target_spell_or_permanent_replacing_from_pair(p)
          [] r = "target_spell_or_permanent_becomes_color" -> target_spell_or_permanent_becomes_color_from_pair(p)
          [] r = "target_permanent_becomes_basic_land_type_until_source_leaves" ->
               Node("TargetPermanentBecomesBasicLandTypeUntilSourceLeavesBattlefield",
                    target_permanent_becomes_basic_land_type_until_source_leaves_parts(p))
          [] r = "target_creature_with_power_or_less_cant_be_blocked" ->
               Wrapped("TargetCreatureWithPowerOrLessCantBeBlockedThisTurn",
                       target_creature_with_power_or_less_cant_be_blocked_power, p)
          [] r = "target_permanent_until_eot" -> target_permanent_until_eot_from_pair(p)
          [] OTHER -> Internal
turn_statement_from_pair(p) ==
    LET r == p.rule
    IN  CASE r = "activated_enchanted_gets_until_eot" -> activated_enchanted_gets_until_eot_statement_from_pair(p)
          [] r = "activated_source_gets_until_eot" -> activated_source_gets_until_eot_statement_from_pair(p)
          [] r = "activated_source_gains_keyword_until_eot" ->
               activated_source_gains_keyword_until_eot_statement_from_pair(p)
          [] r = "activated_source_becomes_pt_creature_until_end_of_combat" ->
               activated_source_becomes_pt_creature_until_end_of_combat_statement_from_pair(p)
          [] r = "each_player_performs_action" -> each_player_performs_action_from_pair(p)
          [] r = "each_player_equalizes_controlled_permanents" ->
               each_player_equalizes_controlled_permanents_from_pair(p)
          [] r = "players_do_actions_the_same_way" -> players_do_actions_the_same_way_from_pair(p)
          [] r = "then_for_each_attacking_creature_choose_label_blocking_restriction" ->
               then_for_each_attacking_creature_choose_label_blocking_restriction_from_pair(p)
          [] r = "as_source_enters_choose" -> as_source_enters_choose_from_pair(p)
          [] r = "activated_ability_with_activation_permission" ->
               activated_ability_with_activation_permission_from_pair(p)
          [] r = "source_enters_with_pt_counters" -> source_enters_with_pt_counters_from_pair(p)
          [] r = "this_ability_cant_cause_total_pt_counters_greater_than" ->
               this_ability_cant_cause_total_pt_counters_greater_than_from_pair(p)
          [] r = "if_this_ability_activated_at_least_times_this_turn_sacrifice_source_at_next_end_step" ->
               if_this_ability_activated_at_least_times_this_turn_sacrifice_source_at_next_end_step_from_pair(p)
          [] r = "only_sources_owner_may_activate_this_ability" ->
               only_sources_owner_may_activate_this_ability_from_pair(p)
          [] r = "destroy_referenced_creature_at_beginning_of_next_end_step" ->
               destroy_referenced_creature_at_beginning_of_next_end_step_from_pair(p)
          [] r = "keyword_ability" -> keyword_from_pair(p)
          [] r = "keyword_ability_list" -> keyword_list_from_pair(p)
          [] r = "semicolon_keyword_ability_list" -> semicolon_keyword_list_from_pair(p)
          [] OTHER -> Internal
ability_statement_from_pair(p) ==
    LET r == p.rule
    IN  CASE r = "activated_ability" -> Wrapped("ActivatedAbilityStatement", activated_ability_from_pair, p)
          [] r \in {"triggered_ability", "triggered_ability_fragment"} ->
               Wrapped("TriggeredAbilityStatement", triggered_ability_from_pair, p)
          [] r = "player_casts_colored_spell" -> Wrapped("TriggerEvent", player_casts_colored_spell_from_pair, p)
          [] r \in {"you_cast_spell_actor", "player_cast_spell_actor"} ->
               Wrapped("TriggerCastActor", trigger_cast_actor_from_pair, p)
          [] r = "cast_spell_descriptor" -> Wrapped("TriggerCastSpell", trigger_cast_spell_from_pair, p)
          [] r = "permanent_dealt_damage_by_source_this_turn_dies" ->
               Wrapped("TriggerEvent", permanent_dealt_damage_by_source_this_turn_dies_from_pair, p)
          [] r = "you_are_dealt_damage" -> Node("TriggerEvent", <<Leaf("YouAreDealtDamage")>>)
          [] r = "permanent_put_into_graveyard_from_battlefield" ->
               Wrapped("TriggerEvent", permanent_put_into_graveyard_from_battlefield_from_pair, p)
          [] r = "player_taps_permanent_for_mana" ->
               Wrapped("TriggerEvent", player_taps_permanent_for_mana_from_pair, p)
          [] r = "you_play_permanent" -> Wrapped("TriggerEvent", you_play_permanent_from_pair, p)
          [] r = "permanent_enters" -> Wrapped("TriggerEvent", permanent_enters_from_pair, p)
          [] r \in {"if_source_on_battlefield_flip_onto_battlefield_from_height",
                    "if_source_turns_over_destroy_touched_nontoken_permanents", "then_destroy_source"} ->
               Wrapped("PhysicalAction", physical_action_from_pair, p)
          [] OTHER -> Wrapped("StaticAbility", static_ability_from_pair, p)
effect_statement_from_pair(p) ==
    LET SpellOrDamage(q) == FirstRead(q, spell_statement_from_pair, damage_statement_from_pair)
        PlayerOrCard(q)  == FirstRead(q, player_statement_from_pair, card_statement_from_pair)
    IN  FirstRead(p, SpellOrDamage, PlayerOrCard)
other_statement_from_pair(p) == FirstRead(p, turn_statement_from_pair, ability_statement_from_pair)
statement_from_pair(p) ==
    IF p.rule \in DOMAIN FixedStatementRules THEN Leaf(FixedStatementRules[p.rule])
    ELSE FirstRead(p, effect_statement_from_pair, other_statement_from_pair)

---------------------------------------------------------------------------
(* Printing a statement: the arms of `write_statement' in five groups. *)
write_spell_statement(a) ==
    CASE a.n = "ManaCost" -> write_mana_cost(a.c[1])
      [] a.n = "CastRestriction" -> write_cast_restriction(a.c[1])
      [] a.n = "CounterTargetSpell" -> write_counter_target_spell(a.c[1], a.c[2])
      [] a.n = "AsAdditionalCostToCastThisSpell" ->
           T("as a additional cost to cast this spell,") \o write_spell_additional_cost(a.c[1]) \o T(".")
      [] a.n = "ThisSpellCostsManaMoreToCastForEachTargetBeyondTheFirst" ->
           T("this spell costs") \o write_mana_cost(a.c[1]) \o T("more to cast for each target beyond the first.")
      [] a.n = "Regenerate" -> T("regenerate") \o write_regenerate_recipient(a.c[1]) \o T(".")
      [] a.n = "NamedSourceDealsDamage" -> write_named_damage_event(a.c[1])
      [] a.n = "DamageEffect" -> write_activated_damage_effect(a.c[1])
      [] a.n = "PutCountersOnSource" -> write_put_counters_on_source(a.c[1], a.c[2], a.c[3], a.c[4])
      [] a.n = "NextCardDrawReplacement" -> write_next_card_draw_replacement(a.c[1])
      [] a.n = "PreventDamageThisTurn" -> write_damage_prevention_effect_statement(a)
      [] a.n = "ForEachDamagePreventedByRemovingCounter" ->
           T("for each") \o write_damage_amount(a.c[1]) \o T("damage that would be dealt to")
           \o write_source_object(a.c[2]) \o T(", if it has a") \o write_pt_modifier(a.c[3])
           \o T("counter on it, remove a") \o write_pt_modifier(a.c[3]) \o T("counter from it and prevent that")
           \o write_damage_amount(a.c[1]) \o T("damage.")
      [] a.n = "SpendOnlyColorManaOnVariable" ->
           T("spend only") \o color_name(a.c[1]) \o T("mana on") \o <<a.c[2].n>> \o T(".")
      [] a.n = "VariableDefinition" -> write_variable_definition(a.c[1])
      [] a.n = "VariableName" -> <<a.c[1].n>>
      [] a.n = "ValueExpression" -> write_value_expression(a.c[1])
      [] a.n = "Condition" -> write_condition(a.c[1])
      [] a.n = "InterveningIf" -> write_intervening_if(a.c[1])
      [] a.n = "IfYouPaySourceDealsDamage" ->
           T("if you pay,") \o write_source_object(a.c[1]) \o T("deals damage equal to the number of")
           \o <<a.c[2].n>> \o T("counters on it to") \o write_damage_recipients(a.c[3]) \o T(".")
      [] a.n = "AsSourceEntersYouLoseLifeEqualToYourLifeTotal" ->
           T("as") \o write_source_object(a.c[1]) \o T("enters, you lose life equal to your life total.")
      [] a.n = "YouGainLifeEqualToDamage" ->
           T("you gain life equal to the") \o write_damage_life_gain_reference(a.c[1]) \o T(".")
      [] a.n = "IfYouCantSourceDealsDamageToYou" ->
           T("if you can't,") \o write_source_object(a.c[1]) \o T("deals") \o write_damage_amount(a.c[2])
           \o T("damage to you.")
      [] a.n = "IfYouFlipResult" ->
           T("if you") \o coin_flip_result_name(a.c[1]) \o T("the flip,") \o write_activated_effect_lowercase(a.c[2])
      [] a.n = "CreateToken" -> write_create_token(a.c[1])
      [] a.n = "ItCantBeRegenerated" -> Written(a.c[1], RestrictedSubjects) \o T("can't be regenerated.")
      [] a.n = "IfItsPermanentCantBeRegeneratedAndWouldDieExileInsteadThisTurn" ->
           T("if it's a") \o permanent_type_name(a.c[1])
           \o T(", it can't be regenerated this turn, and if it would die this turn, exile it instead.")
write_card_statement(a) ==
    CASE a.n = "Destroy" -> write_destroy(a.c[1])
      [] a.n = "TapUntapTargetPermanentChoice" -> write_tap_target_permanent_choice(a)
      [] a.n = "UntapTargetPermanent" -> T("untap target") \o permanent_type_name(a.c[1]) \o T(".")
      [] a.n = "TapEnchanted"   -> T("tap enchanted") \o write_enchanted_object(a.c[1]) \o T(".")
      [] a.n = "UntapEnchanted" -> T("untap enchanted") \o write_enchanted_object(a.c[1]) \o T(".")
      [] a.n = "Exile" -> write_exile(a.c[1])
      [] a.n = "ThatPermanentsControllerMayAttachThisAuraToPermanentOfTheirChoice" ->
           T("that") \o permanent_type_name(a.c[1]) \o T("'s controller may attach this aura to a")
           \o permanent_type_name(a.c[2]) \o T("of their choice.")
      [] a.n = "Keyword"              -> write_keyword(a.c[1])
      [] a.n = "KeywordList"          -> write_keyword_list(a.c[1])
      [] a.n = "SemicolonKeywordList" -> write_semicolon_keyword_list(a.c[1])
      [] a.n = "TargetPlayerDrawsCards" -> T("target player draws") \o write_card_count_object(a.c[1]) \o T(".")
      [] a.n = "DrawCards"       -> T("draw") \o write_card_count_object(a.c[1]) \o T(".")
      [] a.n = "YouMayDrawCards" -> T("you may draw") \o write_card_count_object(a.c[1]) \o T(".")
      [] a.n \in {"ChooseCreatureCardInHandPayableByManaSpentOnVariable", "PutNamedCounterOnTargetNonBasicLand",
                  "ChooseTargetNonCreatureTypeCreatureActivePlayerControlledContinuouslySinceBeginningOfTurn"} ->
           write_activated_effect(a)
      [] a.n = "PlayerMayPayMana" ->
           write_pay_mana_player(a.c[1]) \o T("may pay") \o write_pay_mana_amount(a.c[2]) \o T(".")
      [] a.n = "PayManaPlayer" -> write_pay_mana_player(a.c[1])
      [] a.n = "PayManaAmount" -> write_pay_mana_amount(a.c[1])
      [] a.n = "PlayerDiscardsCards" ->
           write_player_discard_actor(a.c[1]) \o T(IF a.c[1].n = "You" THEN "discard" ELSE "discards")
           \o write_discard_count(a.c[2]) \o When(a.c[3], "at random") \o T(".")
      [] a.n = "IfYouWouldEventYouMaySkipThatInstead" -> write_skip_replacement_effect(a.c[1])
      [] a.n = "VariableCantBeNumber" -> <<a.c[1].n>> \o T("can't be") \o <<a.c[2].n>> \o T(".")
      [] a.n = "LookAtTopCardsOfTargetPlayersLibraryThenPutThemBackInAnyOrder" ->
           T("look at the top") \o write_card_count(a.c[1])
           \o T("cards of target player's library, then put them back in any order.")
      [] a.n = "TargetPlayerGainsLife" -> write_target_player_gains_life(a.c[1])
      [] a.n = "ItsControllerGainsLife" -> T("its controller gains") \o write_life_amount(a.c[1]) \o T(".")
      [] a.n = "PlayerLosesLife" -> write_life_loss_player_sentence(a.c[1], a.c[2])
      [] a.n = "LifeLossPlayer" -> write_life_loss_player(a.c[1])
      [] OTHER -> write_spell_statement(a)
write_player_statement(a) ==
    CASE a.n = "TapAllPermanentsAndPlayerLosesUnspentMana" ->
           T("tap all") \o permanent_type_plural_name(a.c[2]) \o When(a.c[3], "with mana abilities")
           \o T(IF a.c[1].n = "TargetPlayer" THEN "target player controls" ELSE "they control")
           \o T("and that player loses all unspent mana.")
      [] a.n = "PlayerPaymentFailure" ->
           T("if that player doesn't,") \o write_payment_failure_effect(a.c[1]) \o T(".")
      [] a.n = "TargetPlayerActivatesManaAbilityOfEachPermanentTheyControl" ->
           T("target player activates a mana ability of each") \o permanent_type_name(a.c[1]) \o T("they control.")
      [] a.n = "ControlPlayer" -> write_control_player_effect(a)
      [] a.n = "ConditionalControlPlayer" ->
           T("if") \o write_control_player_condition(a.c[1]) \o T(",") \o write_control_player_effect(a.c[2])
      [] a.n = "ControlPlayerDuration" -> write_control_player_duration(a.c[1])
      [] a.n = "ControlPlayerCondition" -> write_control_player_condition(a.c[1])
      [] a.n = "PlayReferencedCard" ->
           write_controlled_player(a.c[1]) \o T("plays") \o write_referenced_card(a.c[2])
           \o When(a.c[3], "if able") \o T(".")
      [] a.n = "ManaAbilityActivationLimit" ->
           write_activation_limit_context(a.c[1]) \o T(",") \o write_controlled_player(a.c[2])
           \o T("can activate mana abilities only if") \o write_mana_ability_source_limit(a.c[3])
           \o T("and only if mana they produce is spent to") \o write_mana_spending_purposes(a.c[4]) \o T(".")
      [] a.n = "ActivationLimitContext" -> write_activation_limit_context(a.c[1])
      [] a.n = "ManaAbilitySourceLimit" -> write_mana_ability_source_limit(a.c[1])
      [] a.n = "ProducedManaSpendingLimit" ->
           T("mana they produce is spent to") \o write_mana_spending_purposes(a.c[1])
      [] a.n = "ManaSpendingPurpose" -> write_mana_spending_purposes(Vec(a.c))
      [] a.n = "ChangeTextOfTargetSpellOrPermanentReplacing" ->
           T("change the text of target spell or permanent by replacing all instances of one")
           \o text_change_replacement_term_name(a.c[1]) \o T("with another.")
      [] a.n = "AddMana" -> write_add_mana_sentence(a.c[1])
      [] a.n = "AddManaOfAnyOneColor" -> T("add") \o u32_to_number_word(a.c[1]) \o T("mana of any one color.")
      [] a.n = "YouOwnTargetCardInZone" -> T("you own target card in the") \o zone_name(a.c[1]) \o T(".")
      [] a.n = "ReturnTargetCardFromYourZoneToZone" ->
           T("return target") \o Maybe(a.c[1], permanent_type_name)
           \o (IF a.c[2] = None THEN <<>> ELSE T("card from your") \o zone_name(a.c[2])) \o T("to")
           \o (CASE a.c[3].n = "TheBattlefield" -> T("the battlefield")
                 [] a.c[3].n = "YourZone"       -> T("your") \o zone_name(a.c[3].c[1])
                 [] a.c[3].n = "ItsOwnersZone"  -> T("its owner's") \o zone_name(a.c[3].c[1]))
           \o T(".")
      [] a.n = "CopyTargetSpellExceptCopyIsColor" ->
           T("copy target") \o write_spell_type_choice(a.c[1]) \o T("spell, except that the copy is")
           \o color_name(a.c[2]) \o T(".")
      [] a.n = "Label" -> <<a.c[1].n>>
      [] a.n = "ImperativeActionSequence" -> write_imperative_action_sequence(a.c[1])
      [] a.n = "EachPlayerPerformsAction" -> T("each player") \o write_each_player_action_sequence(a.c[1]) \o T(".")
      [] a.n = "UntilEndOfTurnYouMayPayCostAtTiming" ->
           T("until end of turn,") \o write_action_timing(a.c[1]) \o T(", you may") \o write_optional_cost(a.c[2])
           \o T(".")
      [] OTHER -> write_card_statement(a)
write_turn_statement(a) ==
    CASE a.n \in {"IfYouDoPreventDamageThisTurn", "IfYouDoAddMana", "IfYouDoUntap",
                  "IfYouDoUntapReferencedPermanent", "IfYouDoGainLife",
                  "IfYouDoUntilYourNextTurnYouCantBeAttackedExceptByCreaturesWithKeywords",
                  "IfYouDoCastThatCardFaceDownWithoutPayingManaCost"} -> write_if_you_do_effect(a)
      [] a.n = "TargetSpellOrPermanentBecomesColor" ->
           T("target spell or permanent becomes") \o color_name(a.c[1]) \o T(".")
      [] a.n \in {"TargetPermanentGetsUntilEndOfTurn", "TargetPermanentGetsMixedUntilEndOfTurn",
                  "TargetPermanentGainsKeywordUntilEndOfTurn",
                  "TargetPermanentGainsKeywordAndGetsUntilEndOfTurn"} -> write_target_permanent_until_end_of_turn(a)
      [] a.n \in {"SourceGainsKeywordUntilEndOfTurn", "SourceGetsUntilEndOfTurn", "EnchantedGetsUntilEndOfTurn",
                  "SourceBecomesCreatureUntilEndOfCombat", "GainControlOfTargetPermanentForAsLongAsYouControlSource",
                  "TargetPermanentBecomesBasicLandTypeUntilSourceLeavesBattlefield",
                  "TargetCreatureWithPowerOrLessCantBeBlockedThisTurn"} -> write_activated_effect(a)
      [] a.n = "EachPlayerEqualizesControlledPermanents" ->
           T("each player") \o write_equalize_controlled_permanents_action(a.c[1]) \o T(".")
      [] a.n = "PlayersDoActionsTheSameWay" -> T("players") \o write_same_way_actions(a.c[1]) \o T("the same way.")
      [] a.n = "ForEachAttackingCreatureChooseLabelBlockingRestriction" ->
           T("then, for each attacking creature you control, choose") \o write_quoted_label(a.c[1].c[1])
           \o T("or \"") \o <<a.c[1].c[2].n>> \o T(".\"")
           \o T("that creature can't be blocked this combat except by creatures with") \o write_keyword(a.c[2])
           \o T("and creatures in a pile with the chosen label.")
      [] a.n = "AsSourceEntersChoose" ->
           T("as") \o write_source_object(a.c[1]) \o T("enters, choose") \o write_as_enters_choice(a.c[2]) \o T(".")
      [] a.n = "ThisPermanentEntersWithCounters" ->
           write_source_object(a.c[1]) \o T("enters with") \o write_counter_amount(a.c[2])
           \o write_pt_modifier(a.c[3]) \o T("counters on it.")
      [] a.n = "ThisAbilityCantCauseTotalCountersGreaterThan" ->
           T("this ability can't cause the total number of") \o write_pt_modifier(a.c[1]) \o T("counters on")
           \o write_source_object(a.c[2]) \o T("to be greater than") \o u32_to_number_word(a.c[3]) \o T(".")
      [] a.n = "IfThisAbilityActivatedAtLeastTimesThisTurnSacrificeSourceAtNextEndStep" ->
           T("if this ability has been activated") \o u32_to_number_word(a.c[1])
           \o T("or more times this turn, sacrifice") \o write_source_object(a.c[2])
           \o T("at the beginning of the next end step.")
      [] a.n = "OnlySourcesOwnerMayActivateThisAbility" ->
           T("only") \o write_source_object_possessive_without_apostrophe(a.c[1])
           \o T("owner may activate this ability.")
      [] a.n = "ModalChoice" -> write_modal_choice(a.c[1])
      [] OTHER -> write_player_statement(a)
\* Only the sentences that a Compound may contain in the middle of a line.
statement_continues_previous_sentence(a) ==
    \/ a.n \in {"PlayerPaymentFailure", "YouGainLifeEqualToDamage", "ItsControllerGainsLife",
                "NamedSourceDealsDamage", "ItCantBeRegenerated", "IfYouFlipResult", "IfYouPaySourceDealsDamage",
                "VariableCantBeNumber",
                "IgnoreThisEffectForEachCreaturePlayerDidntControlContinuouslySinceBeginningOfTurn",
                "DestroyItAtBeginningOfNextEndStepIfItDidntAttackThisTurn",
                "DestroyReferencedCreatureAtBeginningOfNextEndStep", "IfYouDoUntap",
                "ForEachAttackingCreatureChooseLabelBlockingRestriction", "ControlPlayer",
                "ConditionalControlPlayer", "PlayReferencedCard", "ManaAbilityActivationLimit"}
    \/ a.n = "Destroy" /\ a.c[1].n = "ReferencedCreatureAtBeginningOfNextEndStep"
RECURSIVE write_statement(_)
write_statement(a) ==
    CASE a.n \in DOMAIN FixedStatements -> T(FixedStatements[a.n])
      [] a.n = "StaticAbility"             -> write_static_ability(a.c[1])
      [] a.n = "ActivatedAbilityStatement" -> write_activated_ability(a.c[1])
      [] a.n = "ActivatedAbilityWithActivationPermission" ->
           write_activated_ability(a.c[1]) \o write_activation_permission(a.c[2])
      [] a.n = "TriggerEvent"     -> write_trigger_event(a.c[1])
      [] a.n = "TriggerEffect"    -> write_trigger_effect(a.c[1], TRUE)
      [] a.n = "TriggerCastActor" -> write_trigger_cast_actor(a.c[1])
      [] a.n = "TriggerCastSpell" -> write_trigger_cast_spell(a.c[1])
      [] a.n = "TriggeredAbilityStatement" -> write_triggered_ability(a.c[1])
      [] a.n = "PhysicalAction"   -> write_physical_action(a.c[1])
      [] a.n = "Compound" ->
           LET statements == a.c[1].c
               Part(i) == (IF i > 1 /\ ~statement_continues_previous_sentence(statements[i])
                           THEN T("\n") ELSE <<>>) \o write_statement(statements[i])
           IN  FlattenSeq([i \in 1..Len(statements) |-> Part(i)])
      [] OTHER -> write_turn_statement(a)

---------------------------------------------------------------------------
(* The two functions of the library. *)
Matched(t) == Match(card_text, t, 1)
Statements(pairs) == [i \in 1..Len(pairs) |-> statement_from_pair(pairs[i])]
parse(t) == LET m == Matched(t) IN  IF m.ok THEN Compounded(Statements(m.pairs)) ELSE Leaf("Pest")
unparse(a) == write_statement(a)

(***************************************************************************)
(* A card of several lines is written line by line.  With every line the   *)
(* whole text is read, printed, and read again, which is what the          *)
(* properties speak of.                                                    *)
(***************************************************************************)
CONSTANT Cards  \* the cards: for each of its lines, what may stand there

VARIABLES lines,  \* the lines of the card that are still to be written
          text    \* the text so far
vars == <<lines, text>>
Init == lines \in Cards /\ text = <<>>
FirstLine == /\ lines /= <<>> /\ text = <<>>
             /\ text' \in Head(lines) /\ lines' = Tail(lines)
AddLine   == /\ lines /= <<>> /\ text /= <<>>
             /\ \E more \in Head(lines) : text' = text \o <<"\n">> \o more
             /\ lines' = Tail(lines)
Next == FirstLine \/ AddLine
Spec == Init /\ [][Next]_vars

\* What the parser did not refuse.
Refused == {Leaf("Pest"), Internal}
\* A tree printed and read again.
Reread(a) == parse(unparse(a))

---------------------------------------------------------------------------
(***************************************************************************)
(* Where print and parse disagree.                                         *)
(***************************************************************************)
EndsSentence(t) == t[Len(t)] \in {".", "\""}
\* The forms, each at its node.
DriftsHere(a) ==
    \/ a.n = "ReturnTargetCardFromYourZoneToZone"                        \* "card" is lost
       /\ a.c[1] = None /\ a.c[2] = None
    \/ a.n = "Assignments" /\ LET v == a.c[1].c                         \* "2 damage to" is lost
                              IN  \E i \in 2..Len(v) : v[i].c[1] = v[i - 1].c[1]
    \/ a.n = "PlayersDoActionsTheSameWay" /\ Len(a.c[1].c) > 2          \* "," for "and"
    \/ a.n = "UnlessYouPayManaDoActions" /\ Len(a.c[2].c) > 2
    \/ a.n = "TapAllPermanentsAndPlayerLosesUnspentMana" /\ a.c[1].n = "ThatPlayer"
    \/ a = Node("ImperativeActionSequence", <<Vec(<<Leaf("AnteTopCardOfYourLibrary")>>)>>)
    \/ a.n = "TriggerEffect" /\ a.c[1].n = "SacrificePermanents"         \* a period is added
                            /\ a.c[1].c[1].n /= "ThatMany"
    \/ a.n = "TriggerEffect" /\ a.c[1].n = "SourceDealsDamage"           \* read as a damage event
    \/ a.n = "SourceDealsDamage" /\ a.c[1].c[2].n = "DamageDealtToYouThisTurn"
    \/ a.n = "TriggeredAbility" /\ LET v == a.c[2].c                     \* "and" is lost
                                  IN  \E i \in 1..(Len(v) - 1) : /\ v[i].n = "SourceDealsDamage"
                                                                 /\ v[i + 1].n /= "PreventDamage"
    \/ a.n = "Compound" /\ a.c[1].c[1].n = "ModalChoice"                 \* modes must end a text
    \/ a.n = "CardInZone" /\ a.c[2].n = "Ante"                          \* "the" for "a"
    \/ a.n = "Compound" /\ LET v == a.c[1].c                            \* one line of two
                           IN  \E i \in 2..Len(v) : /\ statement_continues_previous_sentence(v[i])
                                                    /\ ~EndsSentence(unparse(v[i - 1]))
RECURSIVE Drifts(_)
Drifts(a) == DriftsHere(a) \/ \E i \in 1..Len(a.c) : Drifts(a.c[i])

(***************************************************************************)
(* Every tree the parser can produce survives print and parse (prop.rs).   *)
(***************************************************************************)
RoundTripOf(t) == LET tree == parse(t) IN tree \notin Refused => Reread(tree) = tree
RoundTrip == [][\A t \in {text'} : RoundTripOf(t)]_vars
(***************************************************************************)
(* It does exactly when it has none of the forms above.                    *)
(***************************************************************************)
RoundTripUnlessDriftOf(t) ==
    LET tree == parse(t) IN tree \notin Refused => (Reread(tree) = tree <=> ~Drifts(tree))
RoundTripUnlessDrift == [][\A t \in {text'} : RoundTripUnlessDriftOf(t)]_vars

(***************************************************************************)
(* The conversion has a tree for whatever the grammar accepts (the error   *)
(* Internal stands for a mismatch of the two), except under the pairs of   *)
(* these rules, which accept more than the tree can say.                   *)
(***************************************************************************)
SaysMore(p) ==
    \/ p.rule \in { "source_deals_damage",           \* an amount with, or without, a definition of X
                    "next_damage_redirection_effect", "for_each_damage_prevented_by_removing_pt_counter",
                    "player_loses_life",             \* an amount of another kind
                    "put_named_counter_on_target_non_basic_land",   \* another permanent type
                    "sacrifice_permanents_action",
                    "source_put_into_graveyard_from_battlefield",   \* another zone
                    "permanent_put_into_graveyard_from_battlefield",
                    "each_player_equalizes_controlled_permanents",  \* a term repeated, and changed
                    "delayed_remove_all_named_counters_from_linked_land",
                    "static_life_total_floor_replacement",
                    "static_damage_prevention_effect" }             \* "it" that refers to nothing
    \/ KidsOf(p, "permanent_object") /= <<>>                        \* "permanent" for a type
    \/ Len(KidsOf(p, "permanent_type")) > 1                         \* two types for one
RECURSIVE Within(_)
Within(ps) == {ps[i] : i \in 1..Len(ps)} \cup UNION {Within(ps[i].kids) : i \in 1..Len(ps)}
InternalOnlyWhereRuleSaysMore ==
    [][\A t \in {text'} : parse(t) = Internal => \E p \in Within(Matched(t).pairs) : SaysMore(p)]_vars

(***************************************************************************)
(* Lines are read alone: with a line added the text is accepted when it    *)
(* was and the line is, and is read as what it was and what the line is.   *)
(* (The modes of a "choose" are read together.)  An instance says which    *)
(* lines are added.                                                        *)
(***************************************************************************)
StatementsOf(t) ==  \* none when it is refused
    LET m == Matched(t)
        statements == Statements(m.pairs)
    IN  IF ~m.ok \/ HasInternal(Vec(statements)) THEN <<>> ELSE statements
Together(first, second) == IF first = <<>> \/ second = <<>> THEN <<>> ELSE first \o second
LinesReadAlone ==
    [][AddLine /\ text[1] /= "choose" =>
        \A t \in {text'}, first \in {text} :
            LET second == SubSeq(t, Len(first) + 2, Len(t))
            IN  StatementsOf(t) = Together(StatementsOf(first), StatementsOf(second))]_vars

=============================================================================
