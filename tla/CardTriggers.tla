---------------------------- MODULE CardTriggers -----------------------------
(***************************************************************************)
(* Triggered abilities: the events, the intervening conditions and the     *)
(* effects that contain no other ability.                                  *)
(***************************************************************************)
EXTENDS CardPlayers

(* Events.  Several say nothing but their own words. *)
FixedEvents ==
    [ ThisAuraEnters |-> "this aura enters",
      ThisAuraLeavesTheBattlefield |-> "this aura leaves the battlefield",
      OneOrMoreCreaturesYouControlAttack |-> "one or more creatures you control attack",
      BeginningOfTheNextEndStep |-> "the beginning of the next end step",
      BeginningOfTheEndStep |-> "the beginning of the end step",
      BeginningOfEachEndStep |-> "the beginning of each end step",
      BeginningOfChosenPlayersUpkeep |-> "the beginning of the chosen player's upkeep",
      BeginningOfEachPlayersUpkeep |-> "the beginning of each player's upkeep",
      BeginningOfEachPlayersDrawStep |-> "the beginning of each player's draw step",
      BeginningOfYourDrawStep |-> "the beginning of your draw step",
      BeginningOfYourUpkeep |-> "the beginning of your upkeep",
      YouAreDealtDamage |-> "you're dealt damage",
      EndOfCombat |-> "end of combat" ]
permanent_enters_from_pair(p) ==
    Node("PermanentEnters",
         <<Of(IF only_inner(p).rule = "permanent_type" THEN "Article" ELSE "Source", p)>>)
trigger_cast_actor_from_pair(p) ==
    CASE p.rule = "you_cast_spell_actor" -> Leaf("You")
      [] p.rule = "player_cast_spell_actor" -> Leaf("Player")
      [] OTHER -> Internal
trigger_cast_spell_from_pair(p) ==
    CASE only_inner(p).rule = "color_word"     -> Of("Colored", p)
      [] only_inner(p).rule = "permanent_type" -> Of("PermanentType", p)
      [] OTHER -> Internal
player_casts_colored_spell_from_pair(p) ==
    Node("CastsSpell", <<trigger_cast_actor_from_pair(Kid(p, 1)), trigger_cast_spell_from_pair(Kid(p, 2))>>)
player_taps_permanent_for_mana_from_pair(p) == Of("PlayerTapsPermanentForMana", p)
you_control_no_basic_lands_from_pair(p) == Of("YouControlNoBasicLands", p)
basic_land_type_is_tapped_for_mana_from_pair(p) ==
    LET subject == only_inner(p)
    IN  Node("IsTappedForMana",
             << CASE subject.rule = "basic_land_type" -> Of("BasicLandType", p)
                  [] subject.rule \in {"permanent_type", "creature_type"} ->
                       Node("Enchanted", <<enchanted_object_from_pair(subject)>>)
                  [] OTHER -> Internal >>)
basic_land_type_controller_becomes_status_from_pair(p) ==
    Node("BasicLandTypeControllerBecomesStatus",
         << Term(Kid(p, 1)), permanent_controller_from_pair(Kid(p, 2)), Term(Kid(p, 3)) >>)
you_play_permanent_from_pair(p) == Of("YouPlayPermanent", p)
original_printing_expansion_from_pair(p) == Text(only_inner(p))
one_or_more_permanents_with_original_printing_on_battlefield_from_pair(p) ==
    Node("OneOrMorePermanentsWithOriginalPrintingOnBattlefield",
         << Flag(Mentions(p, "other")), Flag(Mentions(p, "nontoken")),
            original_printing_expansion_from_pair(only_inner(p)) >>)
enchanted_permanent_dies_from_pair(p) == Of("EnchantedPermanentDies", p)
source_dies_from_pair(p) == Of("SourceDies", p)
source_attacks_from_pair(p) == Of("SourceAttacks", p)
colored_creature_attacks_from_pair(p) == Of("ColoredCreatureAttacks", p)
enchanted_object_becomes_status_from_pair(p) ==
    LET object == Kid(p, 1)
    IN  Node("ObjectBecomesStatus",
             << CASE object.rule = "source_object" -> Node("Source", <<Term(object)>>)
                  [] object.rule \in {"permanent_type", "creature_type"} ->
                       Node("Enchanted", <<enchanted_object_from_pair(object)>>)
                  [] OTHER -> Internal,
                Term(Kid(p, 2)) >>)
beginning_of_upkeep_of_enchanted_permanent_controller_from_pair(p) ==
    Of("BeginningOfUpkeepOfEnchantedPermanentController", p)
\* The only zone an event accepts.
ToGraveyard(zone_pair, event) == IF zone_from_pair(zone_pair) = Leaf("Graveyard") THEN event ELSE Internal
source_put_into_graveyard_from_battlefield_from_pair(p) ==
    ToGraveyard(Kid(p, 2), Node("SourcePutIntoGraveyardFromBattlefield", <<Term(Kid(p, 1))>>))
source_is_dealt_damage_from_pair(p) == Of("SourceIsDealtDamage", p)
source_deals_damage_to_an_opponent_from_pair(p) == Of("SourceDealsDamageToAnOpponent", p)
permanent_dealt_damage_by_source_this_turn_dies_from_pair(p) ==
    Of("PermanentDealtDamageBySourceThisTurnDies", p)
permanent_put_into_graveyard_from_battlefield_from_pair(p) ==
    LET Event(wording) == Node("PermanentPutIntoGraveyardFromBattlefield", <<Term(Kid(p, 1)), Leaf(wording)>>)
    IN  IF Last(p.text) = "dies" THEN Event("Dies")
        ELSE ToGraveyard(Kid(p, 2), Event("PutIntoGraveyardFromBattlefield"))
source_blocks_or_becomes_blocked_by_non_creature_type_creature_from_pair(p) ==
    Of("SourceBlocksOrBecomesBlockedByNonCreatureTypeCreature", p)

trigger_event_from_pair(p) ==
    LET event == only_inner(p)
        r == event.rule
    IN  CASE r = "permanent_enters" -> permanent_enters_from_pair(event)
          [] r = "player_casts_colored_spell" -> player_casts_colored_spell_from_pair(event)
          [] r = "player_taps_permanent_for_mana" -> player_taps_permanent_for_mana_from_pair(event)
          [] r = "basic_land_type_is_tapped_for_mana" -> basic_land_type_is_tapped_for_mana_from_pair(event)
          [] r = "basic_land_type_controller_becomes_status" ->
               basic_land_type_controller_becomes_status_from_pair(event)
          [] r = "one_or_more_permanents_with_original_printing_on_battlefield" ->
               one_or_more_permanents_with_original_printing_on_battlefield_from_pair(event)
          [] r = "you_play_permanent"       -> you_play_permanent_from_pair(event)
          [] r = "enchanted_permanent_dies" -> enchanted_permanent_dies_from_pair(event)
          [] r = "source_dies"    -> source_dies_from_pair(event)
          [] r = "source_attacks" -> source_attacks_from_pair(event)
          [] r = "enchanted_object_becomes_status" -> enchanted_object_becomes_status_from_pair(event)
          [] r = "source_put_into_graveyard_from_battlefield" ->
               source_put_into_graveyard_from_battlefield_from_pair(event)
          [] r = "source_is_dealt_damage" -> source_is_dealt_damage_from_pair(event)
          [] r = "source_deals_damage_to_an_opponent" -> source_deals_damage_to_an_opponent_from_pair(event)
          [] r = "you_control_no_basic_lands" -> you_control_no_basic_lands_from_pair(event)
          [] r = "colored_creature_attacks"   -> colored_creature_attacks_from_pair(event)
          [] r = "permanent_put_into_graveyard_from_battlefield" ->
               permanent_put_into_graveyard_from_battlefield_from_pair(event)
          [] r = "permanent_dealt_damage_by_source_this_turn_dies" ->
               permanent_dealt_damage_by_source_this_turn_dies_from_pair(event)
          [] r = "beginning_of_upkeep_of_enchanted_permanent_controller" ->
               beginning_of_upkeep_of_enchanted_permanent_controller_from_pair(event)
          [] r = "source_blocks_or_becomes_blocked_by_non_creature_type_creature" ->
               source_blocks_or_becomes_blocked_by_non_creature_type_creature_from_pair(event)
          [] OTHER -> Spelled(event, FixedEvents)

write_original_printing_expansion_clause(a) ==
    T("with a name originally printed in the") \o Words(a) \o T("expansion")
write_object_status_subject(a) ==
    IF a.n = "Source" THEN write_source_object(a.c[1]) ELSE T("enchanted") \o write_enchanted_object(a.c[1])
write_trigger_cast_actor(a) == Written(a, [You |-> "you", Player |-> "a player"])
write_trigger_cast_spell(a) == IF a.n = "Colored" THEN color_name(a.c[1]) ELSE permanent_type_name(a.c[1])
When(flag, word) == IF flag.n = "TRUE" THEN T(word) ELSE <<>>
write_trigger_event(a) ==
    CASE a.n \in DOMAIN FixedEvents -> Written(a, FixedEvents)
      [] a.n = "PermanentEnters" ->
           (IF a.c[1].n = "Article" THEN T("a") \o permanent_type_name(a.c[1].c[1])
                                    ELSE write_source_object(a.c[1].c[1])) \o T("enters")
      [] a.n = "CastsSpell" ->
           Written(a.c[1], [You |-> "you cast", Player |-> "a player casts"]) \o T("a") \o write_trigger_cast_spell(a.c[2]) \o T("spell")
      [] a.n = "PlayerTapsPermanentForMana" ->
           T("a player taps a") \o permanent_type_name(a.c[1]) \o T("for mana")
      [] a.n = "IsTappedForMana" ->
           (IF a.c[1].n = "BasicLandType" THEN T("a") \o basic_land_type_name(a.c[1].c[1])
                                          ELSE T("enchanted") \o write_enchanted_object(a.c[1].c[1]))
           \o T("is tapped for mana")
      [] a.n = "BasicLandTypeControllerBecomesStatus" ->
           T("a") \o basic_land_type_name(a.c[1]) \o write_permanent_controller(a.c[2])
           \o T("becomes") \o object_status_name(a.c[3])
      [] a.n = "YouPlayPermanent" -> T("you play a") \o permanent_type_name(a.c[1])
      [] a.n = "OneOrMorePermanentsWithOriginalPrintingOnBattlefield" ->
           T("one or more") \o When(a.c[1], "other") \o When(a.c[2], "nontoken") \o T("permanents")
           \o write_original_printing_expansion_clause(a.c[3]) \o T("are on the battlefield")
      [] a.n = "EnchantedPermanentDies" -> T("enchanted") \o permanent_type_name(a.c[1]) \o T("dies")
      [] a.n = "SourceDies"    -> write_source_object(a.c[1]) \o T("dies")
      [] a.n = "SourceAttacks" -> write_source_object(a.c[1]) \o T("attacks")
      [] a.n = "ObjectBecomesStatus" ->
           write_object_status_subject(a.c[1]) \o T("becomes") \o object_status_name(a.c[2])
      [] a.n = "SourcePutIntoGraveyardFromBattlefield" ->
           write_source_object(a.c[1]) \o T("is put into a graveyard from the battlefield")
      [] a.n = "SourceIsDealtDamage" -> write_source_object(a.c[1]) \o T("is dealt damage")
      [] a.n = "PermanentPutIntoGraveyardFromBattlefield" ->
           T("a") \o permanent_type_name(a.c[1])
           \o Written(a.c[2], [ PutIntoGraveyardFromBattlefield |-> "is put into a graveyard from the battlefield",
                                Dies |-> "dies" ])
      [] a.n = "PermanentDealtDamageBySourceThisTurnDies" ->
           T("a") \o permanent_type_name(a.c[1]) \o T("dealt damage by") \o write_source_object(a.c[2])
           \o T("this turn dies")
      [] a.n = "BeginningOfUpkeepOfEnchantedPermanentController" ->
           T("the beginning of the upkeep of enchanted") \o permanent_type_name(a.c[1]) \o T("'s controller")
      [] a.n = "SourceBlocksOrBecomesBlockedByNonCreatureTypeCreature" ->
           write_source_object(a.c[1]) \o T("blocks or becomes blocked by a non-")
           \o creature_type_name(a.c[2]) \o T("creature")
      [] a.n = "SourceDealsDamageToAnOpponent" -> write_source_object(a.c[1]) \o T("deals damage to a opponent")
      [] a.n = "YouControlNoBasicLands" -> T("you control no") \o basic_land_type_plural_name(a.c[1])
      [] a.n = "ColoredCreatureAttacks" -> T("a") \o color_name(a.c[1]) \o T("creature attacks")

---------------------------------------------------------------------------
(* The intervening condition. *)
first_played_permanent_from_pair(p) ==
    CASE p.rule = "permanent_object" -> Leaf("Permanent")
      [] p.rule = "permanent_type"   -> Node("PermanentType", <<Term(p)>>)
      [] OTHER -> Internal
this_card_in_your_graveyard_with_cards_above_it_from_pair(p) == Of("ThisCardInYourZoneWithCardsAboveIt", p)
intervening_if_from_pair(p) ==
    CASE p.rule = "its_on_the_battlefield" -> Leaf("ItsOnTheBattlefield")
      [] p.rule = "no_permanents_are_on_the_battlefield" -> Of("NoPermanentsAreOnTheBattlefield", p)
      [] p.rule = "source_attacked_or_blocked_this_combat" -> Of("SourceAttackedOrBlockedThisCombat", p)
      [] p.rule = "source_object_is_status" -> Of("SourceIsStatus", p)
      [] p.rule = "this_card_in_your_graveyard_with_cards_above_it" ->
           this_card_in_your_graveyard_with_cards_above_it_from_pair(p)
      [] p.rule = "enchanted_has_keyword" ->
           Node("EnchantedHasKeyword",
                <<enchanted_object_from_pair(Kid(p, 1)), keyword_from_inner_pair(Kid(p, 2))>>)
      [] p.rule = "it_wasnt_first_permanent_you_played_this_turn" ->
           Node("ItWasntFirstPermanentYouPlayedThisTurn", <<first_played_permanent_from_pair(Kid(p, 1))>>)
      [] OTHER -> Internal
triggered_intervening_if_from_pair(p) == intervening_if_from_pair(only_inner(p))
trigger_condition_from_pair(p) ==
    Node("TriggerCondition",
         << Required(FirstOf(p, "trigger_event_clause", trigger_event_from_pair)),
            FirstOf(p, "trigger_intervening_if_clause", triggered_intervening_if_from_pair) >>)
write_intervening_if(a) ==
    CASE a.n = "ItsOnTheBattlefield" -> T("it's on the battlefield")
      [] a.n = "NoPermanentsAreOnTheBattlefield" ->
           T("no") \o permanent_type_plural_name(a.c[1]) \o T("are on the battlefield")
      [] a.n = "EnchantedHasKeyword" ->
           T("enchanted") \o write_enchanted_object(a.c[1]) \o T("has") \o write_keyword(a.c[2])
      [] a.n = "ItWasntFirstPermanentYouPlayedThisTurn" ->
           T("it wasn't the first")
           \o (IF a.c[1].n = "Permanent" THEN T("permanent") ELSE permanent_type_name(a.c[1].c[1]))
           \o T("you played this turn")
      [] a.n = "SourceAttackedOrBlockedThisCombat" ->
           write_source_object(a.c[1]) \o T("attacked or blocked this combat")
      [] a.n = "SourceIsStatus" -> write_source_object(a.c[1]) \o T("is") \o object_status_name(a.c[2])
      [] a.n = "ThisCardInYourZoneWithCardsAboveIt" ->
           T("this card is in your") \o zone_name(a.c[1]) \o T("with") \o u32_to_number_word(a.c[2])
           \o T("or more") \o permanent_type_name(a.c[3]) \o T("cards above it")
\* The word an event is announced with.
write_trigger_condition(a) ==
    LET event == a.c[1]
        word == CASE \/ event.n \in {"ThisAuraEnters", "ThisAuraLeavesTheBattlefield", "SourceDies",
                                     "SourcePutIntoGraveyardFromBattlefield", "YouControlNoBasicLands",
                                     "EnchantedPermanentDies"}
                     \/ event.n = "PermanentEnters" /\ event.c[1].n = "Source" -> "when"
                  [] event.n \in {"BeginningOfTheNextEndStep", "BeginningOfChosenPlayersUpkeep",
                                  "BeginningOfEachPlayersDrawStep", "BeginningOfYourDrawStep",
                                  "BeginningOfEachPlayersUpkeep", "BeginningOfYourUpkeep",
                                  "BeginningOfTheEndStep", "BeginningOfEachEndStep", "EndOfCombat",
                                  "BeginningOfUpkeepOfEnchantedPermanentController"} -> "at"
                  [] OTHER -> "whenever"
    IN  T(word) \o write_trigger_event(event) \o T(",")
        \o (IF a.c[2] = None THEN <<>> ELSE T("if") \o write_intervening_if(a.c[2]) \o T(","))

---------------------------------------------------------------------------
(* Effects. *)
destroy_trigger_effect_from_pair(p) ==
    Node("Destroy",
         << CASE p.rule = "destroy_that_creature_if_it_attacked_this_turn" ->
                   Leaf("ThatCreatureIfItAttackedThisTurn")
              [] p.rule = "destroy_it" -> Node("ReferencedCreature", <<Leaf("It")>>)
              [] p.rule = "destroy_that_creature_at_end_of_combat" -> Leaf("ThatCreatureAtEndOfCombat")
              [] OTHER -> destroy_target_from_pair(only_inner(p)) >>)
defending_player_divides_creatures_without_keyword_into_labeled_piles_from_pair(p) ==
    LET piles == KidsOf(p, "quoted_label_pile")
    IN  Node("DefendingPlayerDividesCreaturesWithoutKeywordIntoLabeledPiles",
             << keyword_from_inner_pair(Kid(p, 1)), Vec([i \in 1..Len(piles) |-> label_from_pair(piles[i])]) >>)
that_player_adds_mana_of_any_type_that_permanent_produced_from_pair(p) ==
    Of("ThatPlayerAddsManaOfAnyTypeThatPermanentProduced", p)
its_controller_adds_an_additional_mana_from_pair(p) == Of("ItsControllerAddsAdditionalMana", p)
loses_and_gains_keyword_from_pair(p) == Of("LosesAndGainsKeyword", p)
return_enchanted_card_and_attach_from_pair(p) == Of("ReturnEnchantedCardAndAttach", p)
trigger_payment_cost_from_pair(p) ==
    CASE p.rule = "mana_cost" -> Node("Mana", <<Term(p)>>)
      [] p.rule = "mana_cost_for_each_named_counter_on_it" -> Of("ManaForEachNamedCounterOnIt", p)
      [] OTHER -> Internal
sacrifice_source_unless_you_pay_from_pair(p) ==
    Node("SacrificeSourceUnlessYouPay",
         << FirstOf(p, "source_object", source_object_from_pair), trigger_payment_cost_from_pair(Last(p.kids)),
            Flag(KidsOf(p, "trigger_then_prefix") /= <<>>) >>)
sacrifice_source_effect_from_pair(p) == Of("SacrificeSource", p)
sacrifice_that_many_permanents_from_pair(p) ==
    Node("SacrificePermanents", <<Leaf("ThatMany"), Flag(Mentions(p, "nontoken")), Leaf("Permanents")>>)
sacrifice_permanents_action_from_pair(p) ==
    Node("SacrificePermanents",
         << Leaf("ImplicitPlural"), Flag(FALSE),
            IF p.kids = <<>> THEN Leaf("Permanents") ELSE Of("PermanentType", p) >>)
sacrifice_permanent_other_than_source_from_pair(p) == Of("SacrificePermanentOtherThanSource", p)
you_may_pay_mana_from_pair(p) ==
    Node("YouMayPayMana", <<pay_mana_player_from_pair(Kid(p, 1)), pay_mana_amount_from_pair(Kid(p, 2))>>)
draw_cards_trigger_effect_from_pair(p) == Node("DrawCards", <<draw_cards_trigger_count_from_pair(p)>>)
you_may_draw_cards_from_pair(p) ==
    Node("YouMayDrawCards", <<draw_cards_trigger_count_from_pair(only_inner(p))>>)
enchanted_object_from_tap_enchanted_object_pair(p) ==
    enchanted_object_from_pair(only_inner(p))
tap_enchanted_object_from_pair(p) ==
    Node("TapEnchanted", <<enchanted_object_from_tap_enchanted_object_pair(p)>>)
unless_you_pay_mana_do_actions_from_pair(p) ==
    Node("UnlessYouPayManaDoActions",
         << Term(Kid(p, 1)),
            Vec([i \in 1..(Len(p.kids) - 1) |-> imperative_action_from_pair(Kid(p, i + 1))]) >>)
remove_pt_counter_from_it_from_pair(p) == Of("RemoveCounterFromIt", p)
trigger_counter_recipient_from_pair(p) ==
    LET recipient == only_inner(p)
    IN  CASE recipient.rule = "it_counter_recipient" -> Leaf("It")
          [] recipient.rule = "source_counter_recipient" -> Of("Source", recipient)
          [] OTHER -> Internal
put_pt_counter_on_it_from_pair(p) ==
    Node("PutCounter", <<Term(Kid(p, 1)), trigger_counter_recipient_from_pair(Kid(p, 2))>>)
named_counter_placement_from_pair(p) ==
    << CASE p.rule = "one_named_counter_on_source" -> Leaf("One")
         [] p.rule = "that_many_named_counters"    -> Leaf("ThatMany")
         [] p.rule = "one_named_counter_for_each_permanent_died_this_turn" ->
              Node("OneForEachPermanentThatDiedThisTurn", <<Term(Kid(p, 3))>>)
         [] OTHER -> Internal,
       Term(Kid(p, 1)), Term(Kid(p, 2)) >>
put_named_counters_on_source_from_pair(p) ==
    Node("PutNamedCountersOnSource", named_counter_placement_from_pair(p))
you_may_remove_named_counter_from_source_from_pair(p) == Of("YouMayRemoveNamedCounterFromSource", p)
\* The counter and the source are named more than once and have to agree.
delayed_remove_all_named_counters_from_linked_land_from_pair(p) ==
    LET k == Terms(p)
    IN  IF k[1] = k[3] /\ k[1] = k[5] /\ k[4] = k[6]
        THEN Node("DelayedRemoveAllNamedCountersFromLinkedPermanent", <<k[1], k[2], k[4]>>) ELSE Internal

write_trigger_counter_recipient(a) == IF a.n = "It" THEN T("it") ELSE write_source_object(a.c[1])
write_named_counter_amount(amount, counter_name_field) ==
    CASE amount.n = "One"      -> T("a") \o <<counter_name_field.n>> \o T("counter")
      [] amount.n = "ThatMany" -> T("that many") \o <<counter_name_field.n>> \o T("counters")
      [] amount.n = "OneForEachPermanentThatDiedThisTurn" ->
           T("a") \o <<counter_name_field.n>> \o T("counter for each") \o permanent_type_name(amount.c[1])
           \o T("that died this turn")
write_trigger_payment_cost(a) ==
    write_mana_cost(a.c[1])
    \o (IF a.n = "Mana" THEN <<>> ELSE T("for each") \o <<a.c[2].n>> \o T("counter on it"))
write_trigger_put_named_counters(amount, counter, source, terminal) ==
    T("put") \o (IF amount.n = "ThatMany" THEN write_named_counter_amount(amount, counter)
                                          ELSE T("a") \o <<counter.n>> \o T("counter"))
    \o T("on") \o write_source_object(source)
    \o (IF amount.n = "OneForEachPermanentThatDiedThisTurn"
        THEN T("for each") \o permanent_type_name(amount.c[1]) \o T("that died this turn") ELSE <<>>)
    \o (IF terminal \/ amount.n /= "One" THEN T(".") ELSE T(","))
=============================================================================
