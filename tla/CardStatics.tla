----------------------------- MODULE CardStatics ----------------------------
(***************************************************************************)
(* Static and triggered abilities.  A triggered ability has effects that   *)
(* grant static abilities or make a copy, and either may hold a triggered  *)
(* ability again, so reading and printing them is mutually recursive.      *)
(***************************************************************************)
EXTENDS CardActivated

OnEnchanted(variant, p, From(_)) ==
    Node(variant, <<enchanted_object_from_pair(Kid(p, 1)), From(Kid(p, 2))>>)
Enchanted(a) == T("enchanted") \o write_enchanted_object(a.c[1])

\* Static abilities without parameters.
FixedStatics ==
    [ YouHaveNoMaximumHandSize |-> "you have no maximum hand size.",
      YouDontLoseGameForHavingZeroOrLessLife |-> "you don't lose the game for having 0 or less life.",
      IfYouWouldGainLifeDrawThatManyCardsInstead |-> "if you would gain life, draw that many cards instead.",
      IfEffectCausesYouToDiscardCardYouMayPutItOnTopOfYourLibraryInstead |->
        "if a effect causes you to discard a card, discard it, but you may put it on top of your library instead of into your graveyard.",
      EffectDoesntRemoveThisAura |-> "this effect doesn't remove this aura.",
      RemoveTargetCreatureDefendingPlayerControlsFromCombat |->
        "remove target creature defending player controls from combat.",
      CreaturesItWasBlockingBecomeUnblocked |->
        "creatures it was blocking that had become blocked by only that creature this combat become unblocked.",
      YouMayHaveItBlockAttackingCreatureOfYourChoice |->
        "you may have it block a attacking creature of your choice.",
      ItBlocksEachAttackingCreatureThisTurnIfAble |->
        "it blocks each attacking creature this turn if able.",
      ThisTurnDefendingPlayersMakeRandomBlockingPiles |->
        "this turn, instead of declaring blockers, each defending player chooses any number of creatures they control and divides them into a number of piles equal to the number of attacking creatures for whom that player is the defending player.",
      AdditionalBlockersMayBePutIntoAdditionalPiles |->
        "creatures those players control that can block additional creatures may likewise be put into additional piles.",
      AssignEachPileToAttackingCreatureAtRandom |->
        "assign each pile to a different one of those attacking creatures at random.",
      CreaturesInAssignedPileBlockIfAble |->
        "each creature in a pile that can block the creature that pile is assigned to does so." ]

---------------------------------------------------------------------------
(* Parts of static abilities. *)
basic_land_type_reference_from_pair(p) ==
    CASE p.rule = "specific_basic_land_type" -> Of("Specific", p)
      [] p.rule = "chosen_basic_land_type"   -> Leaf("ChosenType")
      [] OTHER -> Internal
write_basic_land_type_reference(a) ==
    IF a.n = "Specific" THEN T("a") \o basic_land_type_name(a.c[1]) ELSE T("the chosen type")
\* The kind of object blocked is not kept.
blocking_capacity_permission_from_pair(p) ==
    LET subject == Kid(p, 1)
    IN  Node("BlockingCapacityPermission",
             << IF subject.kids = <<>> THEN Leaf("TargetCreatureDefendingPlayerControls")
                ELSE Of("Source", subject),
                Leaf(only_inner(Kid(p, 2)).rule), Leaf(only_inner(Kid(p, 4)).rule) >>)
write_blocking_capacity_subject(a) ==
    IF a.n = "Source" THEN write_source_object(a.c[1]) ELSE T("target creature defending player controls")
write_blocking_capacity_permission(a) ==
    write_blocking_capacity_subject(a.c[1]) \o T("can block")
    \o Written(a.c[2], [ blocking_capacity_any_number     |-> "any number of creatures",
                         blocking_capacity_additional_one |-> "a additional creature" ])
    \o Written(a.c[3], [ blocking_capacity_this_turn   |-> "this turn.",
                         blocking_capacity_each_combat |-> "each combat." ])
PlayActions == [CastSpells |-> "cast spells", PlayLands |-> "play lands"]
play_restriction_action_from_pair(p) == Spelled(p, PlayActions)
play_restriction_from_pair(p) ==
    LET actions == KidsOf(p, "play_restriction_action")
    IN  Node("PlayRestriction",
             << Vec([i \in 1..Len(actions) |-> play_restriction_action_from_pair(actions[i])]),
                FirstOf(p, "original_printing_expansion_clause", original_printing_expansion_from_pair) >>)
write_play_restriction_action(a) == Written(a, PlayActions)
write_play_restriction_filter(a) == write_original_printing_expansion_clause(a)
write_play_restriction(a) ==
    T("players can't") \o Joined(Parts(a.c[1], write_play_restriction_action), T("or"), T("or"))
    \o write_play_restriction_filter(a.c[2]) \o T(".")
\* The subject and its verb are read apart, and the verb is not kept.
creatures_attack_this_turn_if_able_from_pair(p) ==
    LET subject == only_inner(p).rule
    IN  Node("CreaturesAttackThisTurnIfAble",
             << CASE subject = "that_creature_subject" -> Leaf("ThatCreature")
                  [] subject = "creatures_active_player_controls_subject" -> Leaf("CreaturesActivePlayerControls")
                  [] OTHER -> Internal >>)
life_total_floor_cause_from_pair(p) == Spelled(p, [Damage |-> "damage"])
life_total_floor_player_from_pair(p) == Spelled(p, [You |-> "your"])
\* The threshold is written twice and must agree.
life_total_floor_replacement_from_pair(p) ==
    LET thresholds == KidsOf(p, "unsigned_number")
    IN  IF Term(thresholds[1]) /= Term(thresholds[2]) THEN Internal
        ELSE Node("LifeTotalFloorReplacement",
                  << FirstOf(p, "life_total_floor_cause", life_total_floor_cause_from_pair),
                     FirstOf(p, "life_total_floor_player", life_total_floor_player_from_pair),
                     Term(thresholds[1]) >>)
write_life_total_floor_replacement(a) ==
    T("damage that would reduce your life total to less than") \o <<a.c[3].n>>
    \o T("reduces it to") \o <<a.c[3].n>> \o T("instead.")
named_source_pt_count_from_pair(p) ==
    CASE p.rule = "non_creature_type_creatures_you_control" -> Of("NonCreatureTypeCreatures", p)
      [] p.rule = "basic_lands_you_control" -> Of("BasicLands", p)
      [] p.rule = "lands_you_control"       -> Leaf("Lands")
      [] p.rule = "creatures_named_on_battlefield" -> Of("CreaturesNamedOnTheBattlefield", p)
      [] OTHER -> Internal
write_named_source_pt_count(a) ==
    CASE a.n = "NonCreatureTypeCreatures" -> T("non-") \o creature_type_name(a.c[1]) \o T("creatures you control")
      [] a.n = "BasicLands" -> basic_land_type_plural_name(a.c[1]) \o T("you control")
      [] a.n = "Lands"      -> T("lands you control")
      [] a.n = "CreaturesNamedOnTheBattlefield" ->
           T("creatures named") \o Words(a.c[1]) \o T("on the battlefield")

\* The rules of the abilities without parameters.
FixedRules ==
    [ static_you_have_no_maximum_hand_size |-> "YouHaveNoMaximumHandSize",
      you_dont_lose_game_for_having_zero_or_less_life |-> "YouDontLoseGameForHavingZeroOrLessLife",
      if_you_would_gain_life_draw_that_many_cards_instead |-> "IfYouWouldGainLifeDrawThatManyCardsInstead",
      static_if_effect_causes_you_to_discard_card_you_may_put_it_on_top_of_library_instead |->
        "IfEffectCausesYouToDiscardCardYouMayPutItOnTopOfYourLibraryInstead",
      static_effect_doesnt_remove_this_aura |-> "EffectDoesntRemoveThisAura",
      remove_target_creature_defending_player_controls_from_combat |->
        "RemoveTargetCreatureDefendingPlayerControlsFromCombat",
      creatures_it_was_blocking_become_unblocked |-> "CreaturesItWasBlockingBecomeUnblocked",
      you_may_have_it_block_attacking_creature |-> "YouMayHaveItBlockAttackingCreatureOfYourChoice",
      it_blocks_each_attacking_creature_if_able |-> "ItBlocksEachAttackingCreatureThisTurnIfAble",
      this_turn_defending_players_make_random_blocking_piles |-> "ThisTurnDefendingPlayersMakeRandomBlockingPiles",
      additional_blockers_may_be_put_into_additional_piles |-> "AdditionalBlockersMayBePutIntoAdditionalPiles",
      assign_each_pile_to_attacking_creature_at_random |-> "AssignEachPileToAttackingCreatureAtRandom",
      creatures_in_assigned_pile_block_if_able |-> "CreaturesInAssignedPileBlockIfAble" ]
\* "Enchanted permanent" is accepted by the rule and refused here.
static_untap_step_from_pair(p) ==
    CASE p.rule = "source_object" -> Node("SourceDoesntUntapDuringYourUntapStep", <<source_object_from_pair(p)>>)
      [] p.rule \in {"permanent_type", "creature_type"} ->
           Node("EnchantedDoesntUntapDuringItsControllersUntapStep", <<enchanted_object_from_pair(p)>>)
      [] OTHER -> Internal
static_ability_of_lands_or_combat_from_pair(p) ==
    LET r == p.rule
    IN  CASE r = "static_basic_lands_are_basic_lands" -> Of("BasicLandsAreBasicLands", p)
          [] r = "static_basic_lands_are_pt_colored_creatures_still_lands" ->
               Node("BasicLandsAreColoredCreaturesStillLands",
                    <<Term(Kid(p, 1)), Term(Kid(p, 2)), Term(Kid(p, 3)), FirstOf(p, "color_word", color_from_pair)>>)
          [] r = "static_that_permanent_is_basic_land_type_while_has_named_counter" ->
               Of("ThatPermanentIsBasicLandTypeWhileHasNamedCounter", p)
          [] r = "target_creature_defending_player_controls_can_block_any_number" ->
               blocking_capacity_permission_from_pair(p)
          [] r = "creatures_attack_this_turn_if_able" -> creatures_attack_this_turn_if_able_from_pair(p)
          [] OTHER -> Internal
\* Trigger effects without parameters.
FixedTriggerEffects ==
    [ ThatCreaturesControllerSacrificesIt |-> "that creature's controller sacrifices it.",
      TheirControllersSacrificeThem       |-> "their controllers sacrifice them.",
      YouLoseTheGame                      |-> "you lose the game.",
      YouMayPutThisCardOntoTheBattlefield |-> "you may put this card onto the battlefield.",
      ThatPlayerDrawsAnAdditionalCard     |-> "that player draws a additional card.",
      ThatPlayerDiscardsCardAtRandom      |-> "that player discards a card at random." ]
FixedTriggerRules ==
    [ that_creatures_controller_sacrifices_it    |-> "ThatCreaturesControllerSacrificesIt",
      their_controllers_sacrifice_them           |-> "TheirControllersSacrificeThem",
      you_lose_the_game                          |-> "YouLoseTheGame",
      you_may_put_this_card_onto_the_battlefield |-> "YouMayPutThisCardOntoTheBattlefield",
      that_player_draws_an_additional_card       |-> "ThatPlayerDrawsAnAdditionalCard",
      that_player_discards_card_at_random        |-> "ThatPlayerDiscardsCardAtRandom" ]
write_static_ability_of_lands_or_combat(a) ==
    CASE a.n = "SourceCantBlockCreaturesWithPowerOrGreater" ->
           write_source_object(a.c[1]) \o T("can't block creatures with power") \o <<a.c[2].n>> \o T("or greater.")
      [] a.n = "NamedSourcePowerToughnessEachEqualToCount" ->
           Words(a.c[1]) \o T("'s power and toughness are each equal to the number of")
           \o write_named_source_pt_count(a.c[2]) \o T(".")
      [] a.n = "BasicLandsAreBasicLands" ->
           T("all") \o basic_land_type_plural_name(a.c[1]) \o T("are") \o basic_land_type_plural_name(a.c[2]) \o T(".")
      [] a.n = "BasicLandsAreColoredCreaturesStillLands" ->
           T("all") \o basic_land_type_plural_name(a.c[1]) \o T("are") \o <<a.c[2].n>> \o T("/") \o <<a.c[3].n>>
           \o Maybe(a.c[4], color_name) \o T("creatures that are still lands.")
      [] a.n = "ThatPermanentIsBasicLandTypeWhileHasNamedCounter" ->
           T("that") \o permanent_type_name(a.c[1]) \o T("is a") \o basic_land_type_name(a.c[2])
           \o T("for as long as it has a") \o <<a.c[3].n>> \o T("counter on it.")
      [] a.n = "BlockingCapacityPermission" -> write_blocking_capacity_permission(a)
      [] a.n = "CreaturesAttackThisTurnIfAble" ->
           Written(a.c[1], [ ThatCreature |-> "that creature attacks",
                             CreaturesActivePlayerControls |-> "creatures the active player controls attack" ])
           \o T("this turn if able.")
---------------------------------------------------------------------------
(* Reading.  The arms of `static_ability_from_pair' in the order of the    *)
(* source: general ones, those of an Aura, those of the rest of the game.  *)
RECURSIVE copy_exception_from_pair(_), trigger_effect_from_pair(_), trigger_effect_sequence_from_pair(_),
          triggered_ability_from_pair(_), static_ability_from_pair(_),
          static_ability_of_enchanted_from_pair(_), static_ability_of_game_from_pair(_)

copy_exception_from_pair(p) ==
    LET exception == IF p.rule = "copy_exception" THEN only_inner(p) ELSE p
        type == permanent_type_from_pair(Kid(exception, 1))
    IN  CASE exception.rule = "copy_exception_permanent_type_in_addition" ->
               Node("PermanentTypeInAdditionToItsOtherTypes", <<type>>)
          [] exception.rule = "copy_exception_doesnt_copy_color_and_has_this_ability" ->
               Node("DoesntCopyColorAndHasAbility", <<type, Leaf("ThisAbility")>>)
          [] exception.rule = "copy_exception_with_quoted_triggered_ability" ->
               Node("DoesntCopyColorAndHasAbility",
                    <<type, Node("Triggered", <<triggered_ability_from_pair(Kid(exception, 2))>>)>>)
          [] OTHER -> Internal

\* A condition first, or last.
static_as_long_as_from_pair(p) ==
    IF is_condition_rule(Kid(p, 1).rule)
    THEN Node("Conditional", << Leaf("ConditionThenEffect"), condition_from_pair(Kid(p, 1)),
                                continuous_effect_from_pair(Kid(p, 2)) >>)
    ELSE Node("Conditional", << Leaf("EffectThenCondition"), condition_from_pair(Kid(p, 2)),
                                continuous_effect_from_pair(Kid(p, 1)) >>)
static_status_creatures_from_pair(p) ==
    Node("StatusCreaturesYouControlGet",
         << creature_status_from_pair(Kid(p, 1)),
            Leaf(IF KidsOf(p, "status_creature_controller") = <<>> THEN "Any" ELSE "You"),
            FirstOf(p, "pt_modifier", pt_modifier_from_pair),
            Leaf(IF KidsOf(p, "status_creature_get_duration") = <<>> THEN "Continuous" ELSE "UntilEndOfTurn") >>)
static_other_creature_type_from_pair(p) ==
    Node("OtherCreatureTypeGetAndHaveAbility",
         other_creature_type_subject_from_pair(Kid(p, 1))
         \o << FirstOf(p, "pt_modifier", pt_modifier_from_pair), granted_ability_from_pair(Last(p.kids)) >>)
static_ability_from_pair(p) ==
    LET r == p.rule
    IN  CASE r \in {"source_gets", "becomes_pt_from_mv", "source_pt_equal_to_basic_lands_controlled",
                    "static_untap_restriction_during_untap_steps", "static_damage_prevention_effect",
                    "damage_that_would_be_dealt_to_you_by_source_is_dealt_to_source_instead"} ->
               Node("Continuous", <<continuous_effect_from_pair(p)>>)
          [] r = "static_as_long_as" -> static_as_long_as_from_pair(p)
          [] r = "static_colored_spells_cost_mana_more_to_cast" -> Of("ColoredSpellsCostManaMoreToCast", p)
          [] r = "static_mana_spending_permission" -> Of("ManaSpendingPermission", p)
          [] r = "static_activated_abilities_of_colored_permanents_cost_mana_more_to_activate" ->
               Of("ActivatedAbilitiesOfColoredPermanentsCostManaMoreToActivate", p)
          [] r = "static_colored_permanents_get" -> Of("ColoredPermanentsGet", p)
          [] r = "static_other_creature_type_get_and_have_keyword" -> static_other_creature_type_from_pair(p)
          [] r = "static_status_creatures_you_control_get" -> static_status_creatures_from_pair(p)
          [] OTHER -> FirstRead(p, static_ability_of_enchanted_from_pair, static_ability_of_game_from_pair)
static_ability_of_enchanted_from_pair(p) ==
    LET r == p.rule
    IN  CASE r = "static_enchanted_gets" ->
               Of(IF Len(p.kids) = 2 THEN "EnchantedGets" ELSE "EnchantedGetsAndHasKeyword", p)
          [] r = "static_enchanted_gets_with_definitions" -> Of("EnchantedGetsWithDefinitions", p)
          [] r = "static_enchanted_has_keyword" ->
               OnEnchanted(IF Len(p.kids) = 2 THEN "EnchantedHasKeyword"
                           ELSE "EnchantedHasKeywordAndCantBeEnchantedByOtherAuras", p, keyword_from_inner_pair)
          [] r = "static_enchanted_has_triggered_ability" ->
               Node("EnchantedHasTriggeredAbility",
                    <<enchanted_object_from_pair(Kid(p, 1)), triggered_ability_from_pair(Kid(p, 2))>>)
          [] r \in {"static_enchanted_loses_keyword", "static_enchanted_loses_keyword_fragment"} ->
               OnEnchanted("EnchantedLosesKeyword", p, keyword_from_inner_pair)
          [] r = "static_enchanted_is_basic_land_type" ->
               OnEnchanted("EnchantedIsBasicLandType", p, basic_land_type_reference_from_pair)
          [] r = "static_enchanted_can_attack_as_though_it_had" ->
               OnEnchanted("EnchantedCanAttackAsThoughItHad", p, keyword_from_inner_pair)
          [] r = "static_enchanted_can_attack_as_though_it_didnt_have" ->
               OnEnchanted("EnchantedCanAttackAsThoughItDidntHave", p, keyword_from_inner_pair)
          [] r = "static_enchanted_cant_be_blocked_except_by_creature_type" ->
               OnEnchanted("EnchantedCantBeBlockedExceptByCreatureType", p, creature_type_from_plural_pair)
          [] OTHER -> Internal
\* Abilities of the game and of the source; the fixed ones by their rule.
static_ability_of_game_from_pair(p) ==
    LET r == p.rule
        source == source_object_from_pair(Kid(p, 1))
    IN  CASE r = "static_all_creatures_able_to_block_enchanted_do_so" ->
               Node("AllCreaturesAbleToBlockEnchantedDoSo", <<enchanted_object_from_pair(only_inner(p))>>)
          [] r = "static_you_control_enchanted" ->
               Node("YouControlEnchanted", <<enchanted_object_from_pair(only_inner(p))>>)
          [] r \in DOMAIN FixedRules -> Leaf(FixedRules[r])
          [] r = "static_life_total_floor_replacement" -> life_total_floor_replacement_from_pair(p)
          [] r = "static_you_may_play_any_number_of_permanents_on_each_of_your_turns" ->
               Of("YouMayPlayAnyNumberOfPermanentsOnEachOfYourTurns", p)
          [] r = "static_play_restriction" -> play_restriction_from_pair(p)
          [] r = "static_you_may_have_source_enter_as_copy" ->
               Node("YouMayHaveSourceEnterAsCopyOfAnyPermanentOnBattlefield",
                    << source, Term(Kid(p, 2)),
                       IF Len(p.kids) = 2 THEN None ELSE copy_exception_from_pair(Kid(p, 3)) >>)
          [] r = "static_source_enters_tapped" -> Node("SourceEntersTapped", <<source>>)
          [] r = "static_source_attacks_each_combat_if_able" -> Node("SourceAttacksEachCombatIfAble", <<source>>)
          [] r = "static_source_cant_attack_unless_defending_player_controls_basic_land" ->
               Of("SourceCantAttackUnlessDefendingPlayerControlsBasicLand", p)
          [] r = "static_source_cant_be_blocked_by_creature_type" -> Of("SourceCantBeBlockedByCreatureType", p)
          [] r = "static_source_doesnt_untap_during_your_untap_step" -> static_untap_step_from_pair(only_inner(p))
          [] r = "static_creatures_with_power_or_greater_dont_untap_during_their_controllers_untap_steps" ->
               Node("UntapRestrictionDuringUntapSteps", <<static_untap_restriction_from_pair(only_inner(p))>>)
          [] r = "static_source_cant_block_creatures_with_power_or_greater" ->
               Of("SourceCantBlockCreaturesWithPowerOrGreater", p)
          [] r = "static_named_source_pt_equal_to_count" ->
               Node("NamedSourcePowerToughnessEachEqualToCount",
                    <<Text(Kid(p, 1)), named_source_pt_count_from_pair(Kid(p, 2))>>)
          [] OTHER -> static_ability_of_lands_or_combat_from_pair(p)

source_gains_static_ability_from_pair(p) ==
    Node("SourceGainsStaticAbility",
         <<source_object_from_pair(Kid(p, 1)), static_ability_from_pair(Kid(p, 2))>>)
\* The fragment stands in the sentence, without its period.
you_may_have_source_become_copy_of_target_from_pair(p) ==
    LET copy == IF p.rule = "you_may_have_source_become_copy_of_target_fragment" THEN p ELSE only_inner(p)
    IN  Node("YouMayHaveSourceBecomeCopyOfTarget",
             <<Term(Kid(copy, 1)), Term(Kid(copy, 2)), copy_exception_from_pair(Kid(copy, 3))>>)
trigger_effect_from_pair(p) ==
    LET r == p.rule
    IN  CASE r \in {"destroy_that_creature_if_it_attacked_this_turn", "destroy_it",
                    "destroy_all_non_creature_type_creatures_that_player_controls_that_didnt_attack_this_turn",
                    "destroy_all_creatures_blocking_or_blocked_by_it",
                    "destroy_that_creature_at_end_of_combat"} -> destroy_trigger_effect_from_pair(p)
          [] r \in DOMAIN FixedTriggerRules -> Leaf(FixedTriggerRules[r])
          [] r = "loses_and_gains_keyword" -> loses_and_gains_keyword_from_pair(p)
          [] r = "return_enchanted_card_and_attach" -> return_enchanted_card_and_attach_from_pair(p)
          [] r = "sacrifice_source_effect" -> sacrifice_source_effect_from_pair(p)
          [] r = "sacrifice_source_unless_you_pay" -> sacrifice_source_unless_you_pay_from_pair(p)
          [] r = "sacrifice_permanent_other_than_source" -> sacrifice_permanent_other_than_source_from_pair(p)
          [] r = "sacrifice_that_many_nontoken_permanents" -> sacrifice_that_many_permanents_from_pair(p)
          [] r = "player_loses_life" -> player_loses_life_from_pair(p)
          [] r = "you_gain_life" -> you_gain_life_from_pair(p)
          [] r = "player_may_pay_mana" -> you_may_pay_mana_from_pair(p)
          [] r = "activated_draw_cards" -> draw_cards_trigger_effect_from_pair(p)
          [] r = "you_may_draw_cards" -> you_may_draw_cards_from_pair(p)
          [] r = "damage_prevention_effect_sentence" ->
               Node("PreventDamage", damage_prevention_effect_sentence_from_pair(p).c)
          [] r = "tap_enchanted_object" -> tap_enchanted_object_from_pair(p)
          [] r \in {"if_you_do_gain_life", "if_you_do_gain_life_fragment"} ->
               Node("IfYouDoGainLife", <<if_you_do_gain_life_amount_from_pair(p)>>)
          [] r = "unless_you_pay_mana_do_actions" -> unless_you_pay_mana_do_actions_from_pair(p)
          [] r = "delayed_remove_all_named_counters_from_linked_land" ->
               delayed_remove_all_named_counters_from_linked_land_from_pair(p)
          [] r \in {"one_named_counter_on_source", "that_many_named_counters",
                    "one_named_counter_for_each_permanent_died_this_turn"} ->
               put_named_counters_on_source_from_pair(p)
          [] r = "you_may_remove_named_counter_from_source" -> you_may_remove_named_counter_from_source_from_pair(p)
          [] r = "source_deals_damage" -> source_deals_damage_from_pair(p)
          [] r = "that_player_adds_mana_of_any_type_that_permanent_produced" ->
               that_player_adds_mana_of_any_type_that_permanent_produced_from_pair(p)
          [] r = "its_controller_adds_an_additional_mana" -> its_controller_adds_an_additional_mana_from_pair(p)
          [] r = "defending_player_divides_creatures_without_keyword_into_labeled_piles" ->
               defending_player_divides_creatures_without_keyword_into_labeled_piles_from_pair(p)
          [] r = "source_gains_static_ability" -> source_gains_static_ability_from_pair(p)
          [] r \in {"you_may_have_source_become_copy_of_target",
                    "you_may_have_source_become_copy_of_target_fragment"} ->
               you_may_have_source_become_copy_of_target_from_pair(p)
          [] r = "remove_pt_counter_from_it" -> remove_pt_counter_from_it_from_pair(p)
          [] r = "put_pt_counter_on_it" -> put_pt_counter_on_it_from_pair(p)
          [] OTHER -> Internal
trigger_effect_sequence_from_pair(p) == Each(p, trigger_effect_from_pair)
triggered_ability_from_pair(p) ==
    Node("TriggeredAbility",
         <<trigger_condition_from_pair(Kid(p, 1)), Required(trigger_effect_sequence_from_pair(Kid(p, 2)))>>)
damage_trigger_effect_sequence_from_pair(p) ==
    LET Statement(k) == Node("TriggerEffect", <<trigger_effect_from_pair(k)>>)
    IN  Compounded(Each(p, Statement).c)

---------------------------------------------------------------------------
(* Printing. *)
RECURSIVE write_copy_exception(_), write_trigger_effect(_, _), write_trigger_effect_sequence(_),
          write_triggered_ability(_), write_static_ability(_), write_static_ability_of_source(_)

write_copy_exception(a) ==
    IF a.n = "PermanentTypeInAdditionToItsOtherTypes"
    THEN T(", except it's a") \o permanent_type_name(a.c[1]) \o T("in addition to its other types")
    ELSE T(", except it doesn't copy that") \o permanent_type_name(a.c[1]) \o T("'s color and it has")
         \o (IF a.c[2].n = "ThisAbility" THEN T("this ability")
             ELSE T("\"") \o write_triggered_ability(a.c[2].c[1]) \o T("\""))
write_trigger_effect_of_player(a) ==
    CASE a.n = "SacrificeSourceUnlessYouPay" ->
           When(a.c[3], "then") \o T("sacrifice") \o write_source_object(a.c[1]) \o T("unless you pay")
           \o write_trigger_payment_cost(a.c[2]) \o T(".")
      [] a.n = "SacrificeSource" -> T("sacrifice") \o write_source_object(a.c[1]) \o T(".")
      [] a.n = "SacrificePermanentOtherThanSource" ->
           T("sacrifice a") \o permanent_type_name(a.c[1]) \o T("other than") \o write_source_object(a.c[2]) \o T(".")
      [] a.n = "SacrificePermanents" ->
           T("sacrifice") \o (IF a.c[1].n = "ThatMany" THEN T("that many") ELSE <<>>)
           \o When(a.c[2], "nontoken") \o write_sacrifice_permanents_object(a.c[3]) \o T(".")
      [] a.n = "YouGainLife" -> write_you_gain_life(a.c[1])
      [] a.n = "PlayerLosesLife" -> write_life_loss_player_sentence(a.c[1], a.c[2])
      [] a.n = "YouMayPayMana" ->
           write_pay_mana_player(a.c[1]) \o T("may pay") \o write_pay_mana_amount(a.c[2]) \o T(".")
      [] a.n = "DrawCards" -> T("draw") \o write_card_count_object(a.c[1]) \o T(".")
      [] a.n = "YouMayDrawCards" -> T("you may draw") \o write_card_count_object(a.c[1]) \o T(".")
      [] a.n = "PreventDamage" -> write_damage_prevention_effect_statement(a)
      [] a.n = "TapEnchanted" -> T("tap enchanted") \o write_enchanted_object(a.c[1]) \o T(".")
      [] a.n = "IfYouDoGainLife" -> write_if_you_do_effect(a)
      [] a.n = "UnlessYouPayManaDoActions" ->
           T("unless you pay") \o write_mana_cost(a.c[1]) \o T(",") \o write_trigger_action_list(a.c[2]) \o T(".")
      [] a.n = "DelayedRemoveAllNamedCountersFromLinkedPermanent" ->
           LET counter == a.c[1].n
               source  == write_source_object(a.c[3])
           IN  T("at the beginning of each of your upkeeps for the rest of the game, remove all")
               \o <<counter>> \o T("counters from a") \o permanent_type_name(a.c[2]) \o T("that a") \o <<counter>>
               \o T("counter was put onto with") \o source \o T("but that a") \o <<counter>>
               \o T("counter has not been removed from with") \o source \o T(".")
write_trigger_effect(a, terminal) ==
    CASE a.n = "Destroy" -> T("destroy") \o write_destroy_target(a.c[1]) \o T(".")
      [] a.n \in DOMAIN FixedTriggerEffects -> T(FixedTriggerEffects[a.n])
      [] a.n = "SourceDealsDamage" -> write_triggered_damage(a, terminal)
      [] a.n = "ThatPlayerAddsManaOfAnyTypeThatPermanentProduced" ->
           T("that player adds") \o u32_to_number_word(a.c[1]) \o T("mana of any type that")
           \o permanent_type_name(a.c[2]) \o T("produced.")
      [] a.n = "DefendingPlayerDividesCreaturesWithoutKeywordIntoLabeledPiles" ->
           T("each defending player divides all creatures without") \o write_keyword(a.c[1])
           \o T("they control into a") \o write_quoted_label(a.c[2].c[1])
           \o T("pile and a") \o write_quoted_label(a.c[2].c[2]) \o T("pile.")
      [] a.n = "ItsControllerAddsAdditionalMana" ->
           T("its controller adds a additional") \o write_mana_symbol(a.c[1]) \o T(".")
      [] a.n = "RemoveCounterFromIt" -> T("remove a") \o write_pt_modifier(a.c[1]) \o T("counter from it.")
      [] a.n = "PutCounter" ->
           T("put a") \o write_pt_modifier(a.c[1]) \o T("counter on")
           \o write_trigger_counter_recipient(a.c[2]) \o T(".")
      [] a.n = "PutNamedCountersOnSource" ->
           write_trigger_put_named_counters(a.c[1], a.c[2], a.c[3], terminal)
      [] a.n = "YouMayRemoveNamedCounterFromSource" ->
           T("you may remove a") \o <<a.c[1].n>> \o T("counter from") \o write_source_object(a.c[2]) \o T(".")
      [] a.n = "SourceGainsStaticAbility" ->
           write_source_object(a.c[1]) \o T("gains \"") \o write_static_ability(a.c[2]) \o T("\"")
      [] a.n = "YouMayHaveSourceBecomeCopyOfTarget" ->
           T("you may have") \o write_source_object(a.c[1]) \o T("become a copy of target")
           \o permanent_type_name(a.c[2]) \o write_copy_exception(a.c[3]) \o T(".")
      [] a.n = "LosesAndGainsKeyword" ->
           T("it loses \"") \o write_keyword(a.c[1]) \o T("\" and gains \"") \o write_keyword(a.c[2]) \o T(".\"")
      [] a.n = "ReturnEnchantedCardAndAttach" ->
           T("return enchanted") \o permanent_type_name(a.c[1])
           \o T("card to the battlefield under your control and attach this aura to it.")
      [] OTHER -> write_trigger_effect_of_player(a)
\* An effect keeps its period when it is the last, or a sentence follows it.
write_trigger_effect_sequence(v) ==
    LET Effect(i) ==
            (IF i > 1 /\ v.c[i].n = "SourceGainsStaticAbility" THEN T("and") ELSE <<>>)
            \o write_trigger_effect(v.c[i], i = Len(v.c) \/ v.c[i + 1].n = "PreventDamage")
    IN  FlattenSeq([i \in 1..Len(v.c) |-> Effect(i)])
write_triggered_ability(a) == write_trigger_condition(a.c[1]) \o write_trigger_effect_sequence(a.c[2])
write_static_ability(a) ==
    CASE a.n = "Continuous" -> write_continuous_effect(a.c[1])
      [] a.n = "Conditional" ->
           (IF a.c[1].n = "ConditionThenEffect"
            THEN T("as long as") \o write_condition(a.c[2]) \o T(",") \o write_continuous_effect(a.c[3])
            ELSE write_continuous_effect(a.c[3]) \o T("as long as") \o write_condition(a.c[2])) \o T(".")
      [] a.n = "ColoredSpellsCostManaMoreToCast" ->
           color_name(a.c[1]) \o T("spells cost") \o write_mana_cost(a.c[2]) \o T("more to cast.")
      [] a.n = "ManaSpendingPermission" ->
           T("you may spend") \o color_name(a.c[1]) \o T("mana as though it were") \o color_name(a.c[2]) \o T("mana.")
      [] a.n = "ActivatedAbilitiesOfColoredPermanentsCostManaMoreToActivate" ->
           T("activated abilities of") \o color_name(a.c[1]) \o permanent_type_plural_name(a.c[2])
           \o T("cost") \o write_mana_cost(a.c[3]) \o T("more to activate.")
      [] a.n = "EnchantedGets" ->
           T("enchanted") \o permanent_type_name(a.c[1]) \o T("gets") \o write_pt_modifier(a.c[2]) \o T(".")
      [] a.n = "EnchantedGetsAndHasKeyword" ->
           T("enchanted") \o permanent_type_name(a.c[1]) \o T("gets") \o write_pt_modifier(a.c[2])
           \o T("and has") \o write_keyword(a.c[3]) \o T(".")
      [] a.n = "ColoredPermanentsGet" ->
           color_name(a.c[1]) \o permanent_type_plural_name(a.c[2]) \o T("get") \o write_pt_modifier(a.c[3]) \o T(".")
      [] a.n = "OtherCreatureTypeGetAndHaveAbility" ->
           T("other") \o (IF a.c[2].n = "TypePlural" THEN creature_type_plural_name(a.c[1])
                          ELSE creature_type_name(a.c[1]) \o T("creatures"))
           \o (IF a.c[3] = None THEN <<>> ELSE T("get") \o write_pt_modifier(a.c[3]) \o T("and"))
           \o T("have") \o write_granted_ability(a.c[4])
      [] a.n = "StatusCreaturesYouControlGet" ->
           creature_status_name(a.c[1]) \o T("creatures") \o (IF a.c[2].n = "You" THEN T("you control") ELSE <<>>)
           \o T("get") \o write_pt_modifier(a.c[3])
           \o (IF a.c[4].n = "UntilEndOfTurn" THEN T("until end of turn") ELSE <<>>) \o T(".")
      [] a.n = "EnchantedGetsWithDefinitions" ->
           T("enchanted") \o permanent_type_name(a.c[1]) \o T("gets") \o write_variable_pt_modifier(a.c[2])
           \o T(", where") \o write_variable_definitions(a.c[3]) \o T(".")
      [] a.n = "EnchantedHasTriggeredAbility" ->
           Enchanted(a) \o T("has \"") \o write_triggered_ability(a.c[2]) \o T("\"")
      [] a.n \in DOMAIN FixedStatics -> T(FixedStatics[a.n])
      [] a.n = "YouMayHaveSourceEnterAsCopyOfAnyPermanentOnBattlefield" ->
           T("you may have") \o write_source_object(a.c[1]) \o T("enter as a copy of any")
           \o permanent_type_name(a.c[2]) \o T("on the battlefield") \o Maybe(a.c[3], write_copy_exception)
           \o (IF a.c[3].n = "DoesntCopyColorAndHasAbility" /\ a.c[3].c[2].n = "Triggered"
               THEN <<>> ELSE T("."))
      [] OTHER -> write_static_ability_of_source(a)
write_static_ability_of_source(a) ==
    CASE a.n = "EnchantedHasKeyword" -> Enchanted(a) \o T("has") \o write_keyword(a.c[2]) \o T(".")
      [] a.n = "EnchantedLosesKeyword" -> Enchanted(a) \o T("loses") \o write_keyword(a.c[2]) \o T(".")
      [] a.n = "EnchantedIsBasicLandType" ->
           Enchanted(a) \o T("is") \o write_basic_land_type_reference(a.c[2]) \o T(".")
      [] a.n = "EnchantedHasKeywordAndCantBeEnchantedByOtherAuras" ->
           Enchanted(a) \o T("has") \o write_keyword(a.c[2]) \o T("and can't be enchanted by other auras.")
      [] a.n = "EnchantedCanAttackAsThoughItHad" ->
           Enchanted(a) \o T("can attack as though it had") \o write_keyword(a.c[2]) \o T(".")
      [] a.n = "EnchantedCanAttackAsThoughItDidntHave" ->
           Enchanted(a) \o T("can attack as though it didn't have") \o write_keyword(a.c[2]) \o T(".")
      [] a.n = "EnchantedCantBeBlockedExceptByCreatureType" ->
           Enchanted(a) \o T("can't be blocked except by") \o creature_type_plural_name(a.c[2]) \o T(".")
      [] a.n = "AllCreaturesAbleToBlockEnchantedDoSo" ->
           T("all creatures able to block") \o Enchanted(a) \o T("do so.")
      [] a.n = "YouControlEnchanted" -> T("you control") \o Enchanted(a) \o T(".")
      [] a.n = "LifeTotalFloorReplacement" -> write_life_total_floor_replacement(a)
      [] a.n = "YouMayPlayAnyNumberOfPermanentsOnEachOfYourTurns" ->
           T("you may play any number of") \o permanent_type_plural_name(a.c[1]) \o T("on each of your turns.")
      [] a.n = "PlayRestriction" -> write_play_restriction(a)
      [] a.n = "SourceEntersTapped" -> write_source_object(a.c[1]) \o T("enters tapped.")
      [] a.n = "SourceAttacksEachCombatIfAble" -> write_source_object(a.c[1]) \o T("attacks each combat if able.")
      [] a.n = "SourceCantAttackUnlessDefendingPlayerControlsBasicLand" ->
           write_source_object(a.c[1]) \o T("can't attack unless defending player controls a")
           \o basic_land_type_name(a.c[2]) \o T(".")
      [] a.n = "SourceCantBeBlockedByCreatureType" ->
           write_source_object(a.c[1]) \o T("can't be blocked by") \o creature_type_plural_name(a.c[2]) \o T(".")
      [] a.n = "SourceDoesntUntapDuringYourUntapStep" ->
           write_source_object(a.c[1]) \o T("doesn't untap during your untap step.")
      [] a.n = "EnchantedDoesntUntapDuringItsControllersUntapStep" ->
           Enchanted(a) \o T("doesn't untap during its controller's untap step.")
      [] a.n = "UntapRestrictionDuringUntapSteps" -> write_static_untap_restriction(a.c[1]) \o T(".")
      [] OTHER -> write_static_ability_of_lands_or_combat(a)
=============================================================================
