---------------------------- MODULE CardTargets -----------------------------
(***************************************************************************)
(* Effects on permanents: tapping, destroying, changing them until the end *)
(* of turn; choices, counters, tokens of entering permanents.              *)
(***************************************************************************)
EXTENDS CardEffects

(* Tap, untap, destroy, exile. *)
\* None for "target permanent", the types otherwise.
target_permanent_choice_from_pair(p) == FirstOf(p, "permanent_type_choice", permanent_type_choice_from_pair)
tap_untap_target_permanent_choice_from_pair(p) ==
    LET types == target_permanent_choice_from_pair(p)
    IN  IF types = None THEN Leaf("TargetPermanent") ELSE Node("TargetPermanents", <<types>>)
destroy_target_permanent_choice_from_pair(p) == tap_untap_target_permanent_choice_from_pair(p)
RECURSIVE tap_untap_target_from_pair(_)
tap_untap_target_from_pair(p) ==
    CASE p.rule = "tap_untap_target_choice" -> tap_untap_target_from_pair(only_inner(p))
      [] p.rule = "target_permanent_choice" -> tap_untap_target_permanent_choice_from_pair(p)
      [] p.rule = "target_creature_type" -> Of("TargetCreatureType", p)
      [] OTHER -> Internal
tap_target_permanent_choice_parts(p) ==
    LET optional == Begins(p, "you may")
        either == Begins(p, "tap or untap") \/ Begins(p, "you may tap or untap")
    IN  << Flag(optional), Leaf(IF either THEN "TapOrUntap" ELSE "Tap"),
           tap_untap_target_from_pair(only_inner(p)) >>
tap_target_permanent_choice_statement_from_pair(p) ==
    Node("TapUntapTargetPermanentChoice", tap_target_permanent_choice_parts(p))
write_tap_target_permanent_choice(a) ==
    T(IF a.c[1].n = "TRUE" THEN "you may tap" ELSE "tap")
    \o (IF a.c[2].n = "TapOrUntap" THEN T("or untap") ELSE <<>>) \o T("target")
    \o (CASE a.c[3].n = "TargetPermanent"    -> T("permanent")
          [] a.c[3].n = "TargetPermanents"   -> write_permanent_type_choice(a.c[3].c[1])
          [] a.c[3].n = "TargetCreatureType" -> creature_type_name(a.c[3].c[1]))
    \o T(".")

ReferencedCreatures == [It |-> "it", ThatCreature |-> "that creature"]
referenced_creature_from_pair(p) ==
    IF p.rule = "referenced_creature" THEN Spelled(p, ReferencedCreatures) ELSE Internal
destroy_referenced_creature_condition_from_pair(p) ==
    IF p.rule = "destroy_referenced_creature_condition" THEN Leaf("DidntAttackThisTurn") ELSE Internal
referenced_creature_at_beginning_of_next_end_step_target_from_pair(p) ==
    Node("ReferencedCreatureAtBeginningOfNextEndStep",
         << referenced_creature_from_pair(Kid(p, 1)),
            IF Len(p.kids) < 3 THEN None ELSE destroy_referenced_creature_condition_from_pair(Kid(p, 3)) >>)
destroy_referenced_creature_at_beginning_of_next_end_step_from_pair(p) ==
    Node("Destroy", <<referenced_creature_at_beginning_of_next_end_step_target_from_pair(only_inner(p))>>)
creature_quality_from_pair(p) ==
    CASE p.rule = "non_permanent_type" -> Of("NonPermanentType", p)
      [] p.rule = "non_color_word" -> Of("NonColor", p)
      [] OTHER -> Internal
target_qualified_creature_from_pair(p) == Each(p, creature_quality_from_pair)
RECURSIVE destroy_target_from_pair(_)
destroy_target_from_pair(p) ==
    CASE p.rule \in {"destroy_effect_target", "destroy_target", "destroy_all", "destroy_all_objects"} ->
           destroy_target_from_pair(only_inner(p))
      [] p.rule = "target_permanent_choice" -> destroy_target_permanent_choice_from_pair(p)
      [] p.rule = "target_colored_permanent" -> Of("TargetColoredPermanent", p)
      [] p.rule = "target_status_creature" -> Of("TargetStatusCreature", p)
      [] p.rule = "target_qualified_creature" ->
           Node("TargetQualifiedCreature", <<target_qualified_creature_from_pair(p)>>)
      [] p.rule = "target_creature_type" -> Of("TargetCreatureType", p)
      [] p.rule = "target_basic_lands_count" ->
           Node("TargetBasicLands", <<card_count_from_pair(Kid(p, 1)), Term(Kid(p, 2))>>)
      [] p.rule = "all_non_creature_type_creatures_that_player_controls_that_didnt_attack_this_turn" ->
           Of("AllNonCreatureTypeCreaturesThatPlayerControlsThatDidntAttackThisTurn", p)
      [] p.rule = "all_creatures_blocking_or_blocked_by_it" -> Leaf("AllCreaturesBlockingOrBlockedByIt")
      [] p.rule = "referenced_creature" -> Node("ReferencedCreature", <<referenced_creature_from_pair(p)>>)
      [] p.rule = "that_creature_if_it_attacked_this_turn_target" -> Leaf("ThatCreatureIfItAttackedThisTurn")
      [] p.rule = "referenced_creature_at_beginning_of_next_end_step" ->
           referenced_creature_at_beginning_of_next_end_step_target_from_pair(p)
      [] p.rule = "that_creature_at_end_of_combat_target" -> Leaf("ThatCreatureAtEndOfCombat")
      [] p.rule = "permanent_type_plural_list" ->
           Node("AllPermanents", <<permanent_type_plural_list_from_pair(p)>>)
      [] p.rule = "basic_land_type_plural" -> Node("AllBasicLands", <<Term(p)>>)
      [] OTHER -> Internal
destroy_from_pair(p) == Node("Destroy", <<destroy_target_from_pair(only_inner(p))>>)
exile_from_pair(p) == Node("Exile", <<destroy_target_from_pair(only_inner(p))>>)
write_referenced_creature(a) == Written(a, ReferencedCreatures)
write_creature_quality(a) ==
    T("non") \o (IF a.n = "NonPermanentType" THEN permanent_type_name(a.c[1]) ELSE color_name(a.c[1]))
write_creature_quality_list(v) == Joined(Parts(v, write_creature_quality), T(","), T(","))
write_destroy_target(a) ==
    CASE a.n = "TargetPermanent"  -> T("target permanent")
      [] a.n = "TargetPermanents" -> T("target") \o write_permanent_type_choice(a.c[1])
      [] a.n = "TargetColoredPermanent" -> T("target") \o color_name(a.c[1]) \o T("permanent")
      [] a.n = "TargetStatusCreature" -> T("target") \o creature_status_name(a.c[1]) \o T("creature")
      [] a.n = "TargetQualifiedCreature" -> T("target") \o write_creature_quality_list(a.c[1]) \o T("creature")
      [] a.n = "TargetCreatureType" -> T("target") \o creature_type_name(a.c[1])
      [] a.n = "TargetBasicLands" ->
           write_card_count(a.c[1]) \o T("target") \o basic_land_type_plural_name(a.c[2])
      [] a.n = "AllPermanents" -> T("all") \o write_permanent_type_plural_list(a.c[1])
      [] a.n = "AllBasicLands" -> T("all") \o basic_land_type_plural_name(a.c[1])
      [] a.n = "ReferencedCreature" -> write_referenced_creature(a.c[1])
      [] a.n = "ThatCreatureIfItAttackedThisTurn" -> T("that creature if it attacked this turn")
      [] a.n = "AllNonCreatureTypeCreaturesThatPlayerControlsThatDidntAttackThisTurn" ->
           T("all non-") \o creature_type_name(a.c[1])
           \o T("creatures that player controls that didn't attack this turn")
      [] a.n = "AllCreaturesBlockingOrBlockedByIt" -> T("all creatures blocking or blocked by it")
      [] a.n = "ReferencedCreatureAtBeginningOfNextEndStep" ->
           write_referenced_creature(a.c[1]) \o T("at the beginning of the next end step")
           \o (IF a.c[2] = None THEN <<>> ELSE T("if it didn't attack this turn"))
      [] a.n = "ThatCreatureAtEndOfCombat" -> T("that creature at end of combat")
write_destroy(a) == T("destroy") \o write_destroy_target(a) \o T(".")
write_exile(a) == T("exile") \o write_destroy_target(a) \o T(".")
RestrictedSubjects == [They |-> "they", It |-> "it"]
it_cant_be_regenerated_from_pair(p) ==
    Node("ItCantBeRegenerated", <<Leaf(IF Begins(p, "they") THEN "They" ELSE "It")>>)
if_its_permanent_cant_be_regenerated_and_would_die_exile_instead_this_turn_from_pair(p) ==
    Of("IfItsPermanentCantBeRegeneratedAndWouldDieExileInsteadThisTurn", p)
that_permanents_controller_may_attach_this_aura_to_permanent_of_their_choice_from_pair(p) ==
    Of("ThatPermanentsControllerMayAttachThisAuraToPermanentOfTheirChoice", p)

---------------------------------------------------------------------------
(* Until the end of turn or of combat. *)
CombatRoles == [Attacking |-> "attacking", Blocking |-> "blocking"]
combat_role_from_pair(p) == IF p.rule = "combat_role" THEN Spelled(p, CombatRoles) ELSE Internal
combat_role_name(a) == Written(a, CombatRoles)
target_permanent_selector_from_pair(p) ==
    LET first == only_inner(p)
    IN  CASE p.rule /= "target_permanent_selector" -> Internal
          [] first.rule = "permanent_type" -> Of("Permanent", p)
          [] first.rule = "combat_role" -> Node("CombatRoleCreature", <<combat_role_from_pair(first)>>)
          [] first.rule = "controlled_creature_with_toughness_less_than_source_power" ->
               Of("ControlledCreatureWithToughnessLessThanSourcePower", first)
          [] OTHER -> Internal
target_permanent_eot_effect_from_pair(p) ==
    CASE p.rule = "target_permanent_gets_eot_effect" -> Of("Gets", p)
      [] p.rule = "target_permanent_gains_keyword_eot_effect" -> Of("GainsKeyword", p)
      [] p.rule = "target_permanent_gains_keyword_and_gets_eot_effect" -> Of("GainsKeywordAndGets", p)
      [] OTHER -> Internal
\* A modifier of two numbers is the plain modifier, any other the mixed one.
target_permanent_until_end_of_turn(target, effect) ==
    CASE effect.n = "Gets" ->
           LET m == effect.c[1]
           IN  IF m.c[1].n = "Number" /\ m.c[2].n = "Number"
               THEN Node("TargetPermanentGetsUntilEndOfTurn",
                         <<target, Node("PtModifier", <<m.c[1].c[1], m.c[2].c[1]>>)>>)
               ELSE Node("TargetPermanentGetsMixedUntilEndOfTurn", <<target, m>>)
      [] effect.n = "GainsKeyword" -> Node("TargetPermanentGainsKeywordUntilEndOfTurn", <<target>> \o effect.c)
      [] effect.n = "GainsKeywordAndGets" ->
           Node("TargetPermanentGainsKeywordAndGetsUntilEndOfTurn", <<target>> \o effect.c)
      [] OTHER -> Internal
target_permanent_until_eot_from_pair(p) ==
    target_permanent_until_end_of_turn(target_permanent_selector_from_pair(Kid(p, 1)),
                                       target_permanent_eot_effect_from_pair(Kid(p, 2)))
target_permanent_gains_keyword_until_eot_from_pair(p) ==
    Node("TargetPermanentGainsKeywordUntilEndOfTurn",
         <<target_permanent_selector_from_pair(Kid(p, 1)), Term(only_inner(Kid(p, 2)))>>)
activated_source_gains_keyword_until_eot_statement_from_pair(p) == Of("SourceGainsKeywordUntilEndOfTurn", p)
activated_source_gets_until_eot_statement_from_pair(p) == Of("SourceGetsUntilEndOfTurn", p)
activated_enchanted_gets_until_eot_statement_from_pair(p) == Of("EnchantedGetsUntilEndOfTurn", p)
activated_source_becomes_pt_creature_until_end_of_combat_statement_from_pair(p) ==
    LET terms == Terms(p)
    IN  Node("SourceBecomesCreatureUntilEndOfCombat",
             SubSeq(terms, 1, 4) \o <<Vec(SubSeq(terms, 5, Len(terms)))>>)
write_target_permanent_selector(a) ==
    CASE a.n = "Permanent" -> permanent_type_name(a.c[1])
      [] a.n = "CombatRoleCreature" -> combat_role_name(a.c[1]) \o T("creature")
      [] a.n = "ControlledCreatureWithToughnessLessThanSourcePower" ->
           T("creature you control with toughness less than") \o write_source_object(a.c[1]) \o T("'s power")
write_target_permanent_subject(a) == T("target") \o write_target_permanent_selector(a)
write_gets_pt_modifier_clause(a) == T("gets") \o write_pt_modifier(a)
write_gets_mixed_pt_modifier_clause(a) == T("gets") \o write_mixed_pt_modifier(a)
write_gains_keyword_clause(a) == T("gains") \o write_keyword(a)
write_until_end_of_turn_tail(definitions) ==
    T("until end of turn")
    \o (IF definitions = None THEN T(".") ELSE T(", where") \o write_variable_definitions(definitions) \o T("."))
write_until_end_of_turn_sentence_with_tail(subject, effect, definitions) ==
    subject \o effect \o write_until_end_of_turn_tail(definitions)
write_until_end_of_turn_sentence(subject, effect) ==
    write_until_end_of_turn_sentence_with_tail(subject, effect, None)
\* The arms of write_statement for targets until the end of turn.
write_target_permanent_until_end_of_turn(a) ==
    LET subject == write_target_permanent_subject(a.c[1])
    IN  CASE a.n = "TargetPermanentGetsUntilEndOfTurn" ->
               write_until_end_of_turn_sentence(subject, write_gets_pt_modifier_clause(a.c[2]))
          [] a.n = "TargetPermanentGetsMixedUntilEndOfTurn" ->
               write_until_end_of_turn_sentence(subject, write_gets_mixed_pt_modifier_clause(a.c[2]))
          [] a.n = "TargetPermanentGainsKeywordUntilEndOfTurn" ->
               write_until_end_of_turn_sentence(subject, write_gains_keyword_clause(a.c[2]))
          [] a.n = "TargetPermanentGainsKeywordAndGetsUntilEndOfTurn" ->
               write_until_end_of_turn_sentence_with_tail(
                   subject,
                   write_gains_keyword_clause(a.c[2]) \o T("and gets") \o write_mixed_pt_modifier(a.c[3]), a.c[4])
write_source_becomes_creature_until_end_of_combat(a) ==
    write_source_object(a.c[1]) \o T("becomes a") \o <<a.c[2].n>> \o T("/") \o <<a.c[3].n>>
    \o creature_type_name(a.c[4]) \o FlattenSeq(Parts(a.c[5], permanent_type_name))
    \o T("until end of combat.")

---------------------------------------------------------------------------
(* Text changes, entering choices, counters. *)
target_spell_or_permanent_becomes_color_from_pair(p) == Of("TargetSpellOrPermanentBecomesColor", p)
ReplacementTerms == [BasicLandType |-> "basic land type", ColorWord |-> "color word"]
text_change_replacement_term_from_pair(p) == Spelled(p, ReplacementTerms)
change_text_of_target_spell_or_permanent_replacing_from_pair(p) ==
    Node("ChangeTextOfTargetSpellOrPermanentReplacing", <<text_change_replacement_term_from_pair(only_inner(p))>>)
text_change_replacement_term_name(a) == Written(a, ReplacementTerms)
as_enters_choice_from_pair(p) ==
    CASE p.rule = "color_choice" -> Leaf("Color")
      [] p.rule = "opponent_choice" -> Leaf("Opponent")
      [] p.rule = "basic_land_type_choice" -> Leaf("BasicLandType")
      [] OTHER -> Internal
as_source_enters_choose_from_pair(p) ==
    Node("AsSourceEntersChoose", <<Term(Kid(p, 1)), as_enters_choice_from_pair(Kid(p, 2))>>)
write_as_enters_choice(a) ==
    Written(a, [Color |-> "a color", Opponent |-> "a opponent", BasicLandType |-> "a basic land type"])
source_enters_with_pt_counters_from_pair(p) ==
    Node("ThisPermanentEntersWithCounters",
         <<Term(Kid(p, 1)), counter_amount_from_pair(Kid(p, 2)), Term(Kid(p, 3))>>)
\* The amount and the counter are named twice and must agree.
for_each_damage_prevented_by_removing_pt_counter_from_pair(p) ==
    LET amounts == SelectSeq(p.kids, LAMBDA k : k.rule \in {"unsigned_number", "variable_name"})
        counters == KidsOf(p, "pt_counter")
        Amount(i) == damage_amount_from_pair(amounts[i])
    IN  IF \E k \in DOMAIN p.kids : p.kids[k].rule \notin {"unsigned_number", "variable_name",
                                                          "source_object", "pt_counter"}
        THEN Internal
        ELSE IF Amount(1) /= Amount(2) \/ Term(counters[1]) /= Term(counters[2]) THEN Internal
        ELSE Node("ForEachDamagePreventedByRemovingCounter",
                  <<Amount(1), FirstOf(p, "source_object", source_object_from_pair), Term(counters[1])>>)
this_ability_cant_cause_total_pt_counters_greater_than_from_pair(p) ==
    Of("ThisAbilityCantCauseTotalCountersGreaterThan", p)
if_this_ability_activated_at_least_times_this_turn_sacrifice_source_at_next_end_step_from_pair(p) ==
    Node("IfThisAbilityActivatedAtLeastTimesThisTurnSacrificeSourceAtNextEndStep",
         <<Term(Kid(p, 1)), Term(Kid(p, 2))>>)
only_sources_owner_may_activate_this_ability_from_pair(p) ==
    Node("OnlySourcesOwnerMayActivateThisAbility", <<source_object_from_possessive_pair(only_inner(p))>>)
choose_creature_card_in_hand_payable_by_mana_spent_on_variable_statement_from_pair(p) ==
    Of("ChooseCreatureCardInHandPayableByManaSpentOnVariable", p)
choose_target_non_creature_type_creature_active_player_controlled_continuously_statement_from_pair(p) ==
    Of("ChooseTargetNonCreatureTypeCreatureActivePlayerControlledContinuouslySinceBeginningOfTurn", p)
=============================================================================
