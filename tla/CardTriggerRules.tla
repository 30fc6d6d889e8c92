-------------------------- MODULE CardTriggerRules ---------------------------
(***************************************************************************)
(* The rules of the effects of triggered abilities (grammar.pest), the     *)
(* terms they are made of first; sentences of spells share many of them.   *)
(***************************************************************************)
EXTENDS CardConditions

counter_target_colored_spell_action ==
    N("counter_target_colored_spell_action",
      W("counter target") & color_word & W("spell"))
target_colored_permanent == N("target_colored_permanent", W("target") & color_word & W("permanent"))
destroy_target_colored_permanent_action ==
    N("destroy_target_colored_permanent_action",
      W("destroy") & target_colored_permanent)
colored_target_action == counter_target_colored_spell_action | destroy_target_colored_permanent_action
colored_target_effect == N("colored_target_effect", colored_target_action & W("."))
target_player_life_gain_recipient == W("target player")
life_gain_fixed_amount == N("life_gain_fixed_amount", (unsigned_number | variable_name) & W("life"))
life_gain_equal_to_its_power == N("life_gain_equal_to_its_power", W("life equal to its power"))
life_gain_amount == N("life_gain_amount", life_gain_fixed_amount | life_gain_equal_to_its_power)
player_gains_life_predicate == W("gains") & life_gain_amount
target_player_gains_life ==
    N("target_player_gains_life",
      target_player_life_gain_recipient & player_gains_life_predicate & W("."))
modal_effect == colored_target_effect | target_player_gains_life | damage_prevention_effect_this_turn
modal_mode == N("modal_mode", W("*") & modal_effect)
during_opponents_turn_before_attackers_declared ==
    N("during_opponents_turn_before_attackers_declared",
      W("during a opponent's turn, before attackers are declared"))
during_combat_before_blockers_declared ==
    N("during_combat_before_blockers_declared",
      W("during combat before blockers are declared"))
step == N("step", W("combat damage") | W("declare") & (W("attackers") | W("blockers")))
during_your_step == N("during_your_step", W("during your") & step & W("step"))
during_step == N("during_step", W("during the") & step & W("step"))
before_step == N("before_step", W("before the") & step & W("step"))
cast_timing ==
    during_opponents_turn_before_attackers_declared | during_combat_before_blockers_declared | during_your_step
    | during_step | before_step
cast_restriction == N("cast_restriction", W("cast this spell only") & cast_timing & W("."))
this_spell_costs_mana_more_to_cast_for_each_target_beyond_the_first ==
    N("this_spell_costs_mana_more_to_cast_for_each_target_beyond_the_first",
      W("this spell costs") & mana_cost & W("more to cast for each target beyond the first."))
ante_play_restriction ==
    N("ante_play_restriction",
      W("remove this card from your deck before playing if you're not playing for ante."))
you_own_target_card_in_zone == N("you_own_target_card_in_zone", W("you own target card in the") & zone & W("."))
exchange_that_card_with_top_card_of_your_library ==
    N("exchange_that_card_with_top_card_of_your_library",
      W("exchange that card with the top card of your library."))
return_target_card_kind == N("return_target_card_kind", permanent_type & W("card") | W("card") | permanent_type)
return_destination_zone ==
    N("return_destination_zone",
      W("your") & owned_zone | W("the") & battlefield_zone | W("its owner's") & owned_zone)
return_target_card_from_your_zone_to_zone ==
    N("return_target_card_from_your_zone_to_zone",
      W("return target") & return_target_card_kind & Opt(W("from your") & owned_zone) & W("to")
      & return_destination_zone & W("."))
return_enchanted_card_and_attach ==
    N("return_enchanted_card_and_attach",
      W("return enchanted") & permanent_type
      & W("card to the battlefield under your control and attach this aura to it."))
copy_target_spell_except_copy_is_color ==
    N("copy_target_spell_except_copy_is_color",
      W("copy target") & spell_type_choice & W("spell, except that the copy is") & color_word & W("."))
you_may_choose_new_targets_for_the_copy ==
    N("you_may_choose_new_targets_for_the_copy",
      W("you may choose new targets for the copy."))
tap_enchanted_object == N("tap_enchanted_object", W("tap enchanted") & enchanted_object & W("."))
untap_enchanted_object == N("untap_enchanted_object", W("untap enchanted") & enchanted_object & W("."))
target_hand_player == N("target_hand_player", W("target player's") | W("target opponent's"))
look_at_target_hand_action == N("look_at_target_hand_action", W("look at") & target_hand_player & W("hand"))
choose_card_from_it_action == N("choose_card_from_it_action", W("choose a card from it"))
discard_your_hand_action ==
    N("discard_your_hand_action",
      W("discard") & (W("your hand") | discard_counted_cards))
ante_top_card_of_your_library_action ==
    N("ante_top_card_of_your_library_action",
      W("ante the top card of your library"))
search_your_library_for_a_card_action ==
    N("search_your_library_for_a_card_action",
      W("search your library for a card"))
put_that_card_into_your_hand_action ==
    N("put_that_card_into_your_hand_action",
      W("put that card into your hand"))
shuffle_action == N("shuffle_action", W("shuffle"))
draw_verb == W("draws") | W("draw")
draw_cards_action == N("draw_cards_action", draw_verb & draw_card_object)
tap_source_action == N("tap_source_action", W("tap") & source_object)
sacrifice_permanent_of_opponents_choice_action ==
    N("sacrifice_permanent_of_opponents_choice_action",
      W("sacrifice a") & permanent_type & W("of a opponent's choice"))
imperative_action ==
    look_at_target_hand_action | choose_card_from_it_action | discard_your_hand_action
    | ante_top_card_of_your_library_action | search_your_library_for_a_card_action
    | put_that_card_into_your_hand_action | shuffle_action | draw_cards_action | tap_source_action
    | sacrifice_permanent_of_opponents_choice_action
unless_you_pay_mana_do_actions ==
    N("unless_you_pay_mana_do_actions",
      W("unless you pay") & mana_cost & W(",") & imperative_action & Star(W("and") & imperative_action)
      & W("."))
imperative_action_sequence ==
    N("imperative_action_sequence",
      (look_at_target_hand_action & Opt(W("and") & choose_card_from_it_action) | Ahead(tap_source_action
      & W(".")) & tap_source_action | imperative_action & Star(W(",") & imperative_action) & W(", then")
      & imperative_action) & W("."))
target_permanent_choice == N("target_permanent_choice", W("target") & (W("permanent") | permanent_type_choice))
target_creature_type == N("target_creature_type", W("target") & creature_type)
tap_untap_target_choice == N("tap_untap_target_choice", target_permanent_choice | target_creature_type)
tap_target_permanent_choice ==
    N("tap_target_permanent_choice",
      Opt(W("you may")) & W("tap") & Opt(W("or untap")) & tap_untap_target_choice & W("."))
untap_target_permanent == N("untap_target_permanent", W("untap target") & permanent_type & W("."))
counter_unless_cost ==
    N("counter_unless_cost",
      W("unless its controller pays") & mana_cost | W("with mana value") & variable_name)
counter_target_spell ==
    N("counter_target_spell",
      W("counter target") & (color_word & W("spell") | W("spell") & Opt(counter_unless_cost)) & W("."))
sacrifice_permanent_cost == N("sacrifice_permanent_cost", W("sacrifice a") & permanent_type)
spell_additional_cost == sacrifice_permanent_cost
as_additional_cost_to_cast_this_spell ==
    N("as_additional_cost_to_cast_this_spell",
      W("as a additional cost to cast this spell,") & spell_additional_cost & W("."))
referenced_creature == N("referenced_creature", W("it") | W("that creature"))
beginning_of_the_next_end_step == N("beginning_of_the_next_end_step", W("the beginning of the next end step"))
destroy_referenced_creature_condition ==
    N("destroy_referenced_creature_condition",
      W("if it didn't attack this turn"))
referenced_creature_at_beginning_of_next_end_step ==
    N("referenced_creature_at_beginning_of_next_end_step",
      referenced_creature & W("at") & beginning_of_the_next_end_step
      & Opt(destroy_referenced_creature_condition))
destroy_referenced_creature_at_beginning_of_next_end_step ==
    N("destroy_referenced_creature_at_beginning_of_next_end_step",
      W("destroy") & referenced_creature_at_beginning_of_next_end_step & W("."))
that_creature_subject == N("that_creature_subject", W("that creature"))
end_of_combat == N("end_of_combat", W("end of combat"))
that_creature_at_end_of_combat_target ==
    N("that_creature_at_end_of_combat_target",
      that_creature_subject & W("at") & end_of_combat)
that_creature_if_it_attacked_this_turn_target ==
    N("that_creature_if_it_attacked_this_turn_target",
      that_creature_subject & W("if it attacked this turn"))
all_non_creature_type_creatures_that_player_controls_that_didnt_attack_this_turn ==
    N("all_non_creature_type_creatures_that_player_controls_that_didnt_attack_this_turn",
      W("all non-") & creature_type & W("creatures that player controls that didn't attack this turn"))
all_creatures_blocking_or_blocked_by_it ==
    N("all_creatures_blocking_or_blocked_by_it",
      W("all creatures blocking or blocked by it"))
destroy_all_objects == N("destroy_all_objects", basic_land_type_plural | permanent_type_plural_list)
destroy_all == N("destroy_all", W("all") & destroy_all_objects)
target_basic_lands_count == N("target_basic_lands_count", card_count & W("target") & basic_land_type_plural)
target_status_creature == N("target_status_creature", W("target") & creature_status & W("creature"))
non_permanent_type == N("non_permanent_type", W("non") & permanent_type)
non_color_word == N("non_color_word", W("non") & color_word)
creature_quality == non_permanent_type | non_color_word
target_qualified_creature ==
    N("target_qualified_creature",
      W("target") & creature_quality & Star(W(",") & creature_quality) & W("creature"))
destroy_target ==
    N("destroy_target",
      all_creatures_blocking_or_blocked_by_it | destroy_all | target_basic_lands_count
      | target_colored_permanent | target_status_creature | target_qualified_creature | target_creature_type
      | target_permanent_choice)
destroy_effect_target ==
    N("destroy_effect_target",
      that_creature_at_end_of_combat_target | that_creature_if_it_attacked_this_turn_target
      | all_non_creature_type_creatures_that_player_controls_that_didnt_attack_this_turn | referenced_creature
      | destroy_target)
destroy == N("destroy", W("destroy") & destroy_effect_target & W("."))
exile == N("exile", W("exile") & destroy_target & W("."))
that_permanents_controller_may_attach_this_aura_to_permanent_of_their_choice ==
    N("that_permanents_controller_may_attach_this_aura_to_permanent_of_their_choice",
      that_permanents_controller & W("may attach this aura to a") & permanent_type & W("of their choice."))
regenerate_source ==
    N("regenerate_source",
      W("regenerate") & (source_object | W("enchanted") & enchanted_object) & Opt(W(".")))
regenerate_target_creature == N("regenerate_target_creature", W("regenerate target creature."))
destroy_all_non_creature_type_creatures_that_player_controls_that_didnt_attack_this_turn ==
    N("destroy_all_non_creature_type_creatures_that_player_controls_that_didnt_attack_this_turn",
      W("destroy") & all_non_creature_type_creatures_that_player_controls_that_didnt_attack_this_turn & W("."))
destroy_all_creatures_blocking_or_blocked_by_it ==
    N("destroy_all_creatures_blocking_or_blocked_by_it",
      W("destroy") & all_creatures_blocking_or_blocked_by_it & W("."))
destroy_that_creature_if_it_attacked_this_turn ==
    N("destroy_that_creature_if_it_attacked_this_turn",
      W("destroy") & that_creature_if_it_attacked_this_turn_target & W("."))
destroy_it == N("destroy_it", W("destroy it."))
destroy_that_creature_at_end_of_combat ==
    N("destroy_that_creature_at_end_of_combat",
      W("destroy") & that_creature_at_end_of_combat_target & W("."))
sacrifice_permanent_other_than_source ==
    N("sacrifice_permanent_other_than_source",
      W("sacrifice a") & permanent_type & W("other than") & source_object & W("."))
delayed_remove_all_named_counters_from_linked_land ==
    N("delayed_remove_all_named_counters_from_linked_land",
      W("at the beginning of each of your upkeeps for the rest of the game, remove all") & named_counters
      & W("from a") & permanent_type & W("that a") & named_counter & W("was put onto with") & source_object
      & W("but that a") & named_counter & W("has not been removed from with") & source_object & W("."))
trigger_counter_placement_terminator == W(".") | W(",")
one_named_counter_on_source ==
    N("one_named_counter_on_source",
      W("put a") & named_counter & W("on") & source_object & trigger_counter_placement_terminator)
that_many_named_counters ==
    N("that_many_named_counters",
      W("put that many") & named_counters & W("on") & source_object & W("."))
one_named_counter_for_each_permanent_died_this_turn ==
    N("one_named_counter_for_each_permanent_died_this_turn",
      W("put a") & named_counter & W("on") & source_object & W("for each") & permanent_type
      & W("that died this turn."))
put_named_counters_on_source ==
    one_named_counter_on_source | that_many_named_counters | one_named_counter_for_each_permanent_died_this_turn
you_may_remove_named_counter_from_source ==
    N("you_may_remove_named_counter_from_source",
      W("you may remove a") & named_counter & W("from") & source_object & W("."))
it_counter_recipient == N("it_counter_recipient", W("it"))
source_counter_recipient == N("source_counter_recipient", source_object)
trigger_counter_recipient == N("trigger_counter_recipient", it_counter_recipient | source_counter_recipient)
put_pt_counter_on_it ==
    N("put_pt_counter_on_it",
      W("put a") & pt_counter & W("on") & trigger_counter_recipient & W("."))
remove_pt_counter_from_it == N("remove_pt_counter_from_it", W("remove a") & pt_counter & W("from it."))
quoted_keyword == W("\"") & keyword & W("\"")
quoted_keyword_with_inner_period == W("\"") & keyword & W(". \"")
loses_and_gains_keyword ==
    N("loses_and_gains_keyword",
      W("it loses") & quoted_keyword & W("and gains") & quoted_keyword_with_inner_period)
you_may_put_this_card_onto_the_battlefield ==
    N("you_may_put_this_card_onto_the_battlefield",
      W("you may put this card onto the battlefield."))
you_pay_mana_player == N("you_pay_mana_player", W("you"))
that_player_pay_mana_player == N("that_player_pay_mana_player", W("that player"))
pay_mana_player == N("pay_mana_player", you_pay_mana_player | that_player_pay_mana_player)
any_amount_of_mana == N("any_amount_of_mana", W("any amount of mana"))
pay_mana_amount == N("pay_mana_amount", any_amount_of_mana | mana_cost)
player_may_pay_mana == N("player_may_pay_mana", pay_mana_player & W("may pay") & pay_mana_amount & W("."))
copy_exception_permanent_type_in_addition ==
    N("copy_exception_permanent_type_in_addition",
      W(", except it's a") & permanent_type & W("in addition to its other types"))
copy_exception_doesnt_copy_color_and_has_this_ability ==
    N("copy_exception_doesnt_copy_color_and_has_this_ability",
      W(", except it doesn't copy that") & permanent_type & W("'s color and it has this ability"))
copy_exception ==
    N("copy_exception",
      copy_exception_permanent_type_in_addition | copy_exception_doesnt_copy_color_and_has_this_ability)
you_may_have_source_become_copy_of_target_fragment ==
    N("you_may_have_source_become_copy_of_target_fragment",
      W("you may have") & source_object & W("become a copy of target") & permanent_type & copy_exception)
you_may_have_source_become_copy_of_target ==
    N("you_may_have_source_become_copy_of_target",
      you_may_have_source_become_copy_of_target_fragment & W("."))
activated_draw_cards == N("activated_draw_cards", W("draw") & draw_card_object & W("."))
you_may_draw_cards == N("you_may_draw_cards", W("you may") & activated_draw_cards)
gain_life_effect == N("gain_life_effect", W("you gain") & unsigned_number & W("life."))
if_you_do_gain_life == N("if_you_do_gain_life", W("if you do,") & gain_life_effect)
sacrifice_source_effect == N("sacrifice_source_effect", W("sacrifice") & source_object & W("."))
trigger_then_prefix == N("trigger_then_prefix", W("then"))
mana_cost_for_each_named_counter_on_it ==
    N("mana_cost_for_each_named_counter_on_it",
      mana_cost & W("for each") & named_counter & W("on it"))
trigger_payment_cost == mana_cost_for_each_named_counter_on_it | mana_cost
sacrifice_source_unless_you_pay ==
    N("sacrifice_source_unless_you_pay",
      Opt(trigger_then_prefix) & W("sacrifice") & source_object & W("unless you pay") & trigger_payment_cost
      & W("."))
that_player_adds_mana_of_any_type_that_permanent_produced ==
    N("that_player_adds_mana_of_any_type_that_permanent_produced",
      W("that player adds") & number_word & W("mana of any type that") & permanent_type & W("produced."))
that_player_discard_actor == W("that player")
that_player_discard_prefix == that_player_discard_actor & W("discards")
discard_at_random == W("at random")
that_player_discards_card_at_random ==
    N("that_player_discards_card_at_random",
      that_player_discard_prefix & discard_one_card & discard_at_random & W("."))
that_player_draws_an_additional_card ==
    N("that_player_draws_an_additional_card",
      W("that player draws a additional card."))
its_controller_adds_an_additional_mana ==
    N("its_controller_adds_an_additional_mana",
      W("its controller adds a additional") & mana_symbol & W("."))
quoted_label_pile == N("quoted_label_pile", quoted_label & W("pile"))
defending_player_divides_creatures_without_keyword_into_labeled_piles ==
    N("defending_player_divides_creatures_without_keyword_into_labeled_piles",
      W("each defending player divides all creatures without") & keyword & W("they control into a")
      & quoted_label_pile & W("and a") & quoted_label_pile & W("."))
static_enchanted_loses_keyword ==
    N("static_enchanted_loses_keyword",
      W("enchanted") & enchanted_object & W("loses") & keyword & W("."))
quoted_static_ability == W("\"") & static_enchanted_loses_keyword & W("\"")
source_gains_static_ability ==
    N("source_gains_static_ability",
      source_object & W("gains") & quoted_static_ability)
that_creatures_controller_sacrifices_it ==
    N("that_creatures_controller_sacrifices_it",
      W("that creature's controller sacrifices it."))
their_controllers_sacrifice_them ==
    N("their_controllers_sacrifice_them",
      W("their controllers sacrifice them."))
sacrifice_permanents_that_many_object == W("nontoken permanents") | W("permanents")
sacrifice_that_many_nontoken_permanents ==
    N("sacrifice_that_many_nontoken_permanents",
      W("sacrifice that many") & sacrifice_permanents_that_many_object & W("."))
its_owner_life_loss_player == N("its_owner_life_loss_player", W("its owner"))
life_loss_player == N("life_loss_player", its_owner_life_loss_player)
half_their_life_loss_amount == N("half_their_life_loss_amount", W("half their"))
life_loss_amount == half_their_life_loss_amount | unsigned_number
player_loses_life ==
    N("player_loses_life",
      life_loss_player & W("loses") & life_loss_amount & W("life") & Opt(W(",") & rounding) & W("."))
you_lose_the_game == N("you_lose_the_game", W("you lose the game."))
you_gain_life == N("you_gain_life", gain_life_effect)
trigger_effect ==
    destroy_all_non_creature_type_creatures_that_player_controls_that_didnt_attack_this_turn
    | destroy_all_creatures_blocking_or_blocked_by_it | destroy_that_creature_if_it_attacked_this_turn
    | destroy_it | destroy_that_creature_at_end_of_combat | sacrifice_permanent_other_than_source
    | delayed_remove_all_named_counters_from_linked_land | put_named_counters_on_source
    | you_may_remove_named_counter_from_source | put_pt_counter_on_it | remove_pt_counter_from_it
    | loses_and_gains_keyword | return_enchanted_card_and_attach | unless_you_pay_mana_do_actions
    | you_may_put_this_card_onto_the_battlefield | player_may_pay_mana
    | you_may_have_source_become_copy_of_target | you_may_draw_cards | activated_draw_cards
    | damage_prevention_effect_sentence | tap_enchanted_object | if_you_do_gain_life | sacrifice_source_effect
    | sacrifice_source_unless_you_pay | source_deals_damage
    | that_player_adds_mana_of_any_type_that_permanent_produced | that_player_discards_card_at_random
    | that_player_draws_an_additional_card | its_controller_adds_an_additional_mana
    | defending_player_divides_creatures_without_keyword_into_labeled_piles | source_gains_static_ability
    | that_creatures_controller_sacrifices_it | their_controllers_sacrifice_them
    | sacrifice_that_many_nontoken_permanents | player_loses_life | you_lose_the_game | you_gain_life
damage_trigger_effect_sequence ==
    N("damage_trigger_effect_sequence",
      source_deals_damage & W("and") & trigger_effect & Star(Opt(W("and")) & trigger_effect))
=============================================================================
