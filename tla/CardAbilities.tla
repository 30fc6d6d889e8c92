--------------------------- MODULE CardAbilities ----------------------------
(***************************************************************************)
(* The rules of abilities and of whole texts (grammar.pest).  The order of *)
(* the sentences is the order the parser tries them in.                    *)
(***************************************************************************)
EXTENDS CardSentences

possessive_proper_name == Name("possessive_proper_name")
remove_named_counter_from_source ==
    N("remove_named_counter_from_source",
      W("remove a") & named_counter & W("from") & source_object)
sacrifice_source == N("sacrifice_source", W("sacrifice") & source_object)
activated_cost_component ==
    remove_named_counter_from_source | sacrifice_source | variable_mana_symbol | mana_cost | tap_symbol
activated_cost == N("activated_cost", activated_cost_component & Star(W(",") & activated_cost_component))
activated_ability == N("activated_ability", activated_cost & W(":") & activated_effect)
activate_only_during_your_upkeep ==
    N("activate_only_during_your_upkeep",
      W("activate only during your upkeep."))
activation_permission == only_sources_owner_may_activate_this_ability | activate_only_during_your_upkeep
activated_ability_with_activation_permission ==
    N("activated_ability_with_activation_permission",
      activated_ability & activation_permission)
static_as_long_as ==
    N("static_as_long_as",
      W("as long as") & condition & W(",") & continuous_effect & W(".") | continuous_effect & W("as long as")
      & condition & W("."))
static_mana_spending_permission ==
    N("static_mana_spending_permission",
      W("you may spend") & color_word & W("mana as though it were") & color_word & W("mana."))
static_colored_spells_cost_mana_more_to_cast ==
    N("static_colored_spells_cost_mana_more_to_cast",
      color_word & W("spells cost") & mana_cost & W("more to cast."))
static_activated_abilities_of_colored_permanents_cost_mana_more_to_activate ==
    N("static_activated_abilities_of_colored_permanents_cost_mana_more_to_activate",
      W("activated abilities of") & color_word & permanent_type_plural & W("cost") & mana_cost
      & W("more to activate."))
static_colored_permanents_get ==
    N("static_colored_permanents_get",
      color_word & permanent_type_plural & W("get") & pt_modifier & W("."))
other_creature_type_subject ==
    N("other_creature_type_subject",
      creature_type & W("creatures") | creature_type_plural)
other_creature_type_granted_ability == W("\"") & activated_ability & W("\"") | keyword & W(".")
static_other_creature_type_get_and_have_keyword ==
    N("static_other_creature_type_get_and_have_keyword",
      W("other") & other_creature_type_subject & (W("get") & pt_modifier & W("and have")
      & other_creature_type_granted_ability | W("have") & other_creature_type_granted_ability))
status_creature_controller == N("status_creature_controller", W("you control"))
status_creature_get_duration == N("status_creature_get_duration", W("until end of turn"))
static_status_creatures_you_control_get ==
    N("static_status_creatures_you_control_get",
      creature_status & W("creatures") & Opt(status_creature_controller) & W("get") & pt_modifier
      & Opt(status_creature_get_duration) & W("."))
static_enchanted_gets ==
    N("static_enchanted_gets",
      W("enchanted") & permanent_type & W("gets") & pt_modifier & Opt(W("and has") & keyword) & W("."))
static_enchanted_gets_with_definitions ==
    N("static_enchanted_gets_with_definitions",
      W("enchanted") & permanent_type & W("gets") & variable_pt_modifier & W(",") & where_clause & W("."))
trigger_word == W("whenever") | W("when") | W("at")
you_are_dealt_damage == N("you_are_dealt_damage", W("you're dealt damage"))
permanent_put_into_graveyard_from_battlefield ==
    N("permanent_put_into_graveyard_from_battlefield",
      W("a") & permanent_type & (W("is put into a") & zone & W("from the battlefield") | W("dies")))
permanent_dealt_damage_by_source_this_turn_dies ==
    N("permanent_dealt_damage_by_source_this_turn_dies",
      W("a") & permanent_type & W("dealt damage by") & source_object & W("this turn dies"))
source_put_into_graveyard_from_battlefield ==
    N("source_put_into_graveyard_from_battlefield",
      source_object & W("is put into a") & zone & W("from the battlefield"))
source_dies == N("source_dies", source_object & W("dies"))
source_deals_damage_to_an_opponent ==
    N("source_deals_damage_to_an_opponent",
      source_object & W("deals damage to a opponent"))
source_is_dealt_damage == N("source_is_dealt_damage", source_object & W("is dealt damage"))
aura_leaves_battlefield == N("aura_leaves_battlefield", W("this aura leaves the battlefield"))
aura_enters == N("aura_enters", W("this aura enters"))
enchanted_permanent_dies == N("enchanted_permanent_dies", W("enchanted") & permanent_type & W("dies"))
source_blocks_or_becomes_blocked_by_non_creature_type_creature ==
    N("source_blocks_or_becomes_blocked_by_non_creature_type_creature",
      source_object & W("blocks or becomes blocked by a non-") & creature_type & W("creature"))
enchanted_object_becomes_status ==
    N("enchanted_object_becomes_status",
      (W("enchanted") & enchanted_object | source_object) & W("becomes") & object_status)
beginning_of_each_players_draw_step ==
    N("beginning_of_each_players_draw_step",
      W("the beginning of each player's draw step"))
beginning_of_your_draw_step == N("beginning_of_your_draw_step", W("the beginning of your draw step"))
beginning_of_each_players_upkeep ==
    N("beginning_of_each_players_upkeep",
      W("the beginning of each player's upkeep"))
beginning_of_your_upkeep == N("beginning_of_your_upkeep", W("the beginning of your upkeep"))
beginning_of_upkeep_of_enchanted_permanent_controller ==
    N("beginning_of_upkeep_of_enchanted_permanent_controller",
      W("the beginning of the upkeep of enchanted") & permanent_type & W("'s controller"))
beginning_of_chosen_players_upkeep ==
    N("beginning_of_chosen_players_upkeep",
      W("the beginning of the chosen player's upkeep"))
beginning_of_each_end_step == N("beginning_of_each_end_step", W("the beginning of each end step"))
beginning_of_the_end_step == N("beginning_of_the_end_step", W("the beginning of the end step"))
you_play_permanent == N("you_play_permanent", W("you play a") & permanent_type)
player_taps_permanent_for_mana ==
    N("player_taps_permanent_for_mana",
      W("a player taps a") & permanent_type & W("for mana"))
you_cast_spell_actor == N("you_cast_spell_actor", W("you"))
player_cast_spell_actor == N("player_cast_spell_actor", W("a player"))
cast_spell_descriptor == N("cast_spell_descriptor", color_word | permanent_type)
player_casts_colored_spell ==
    N("player_casts_colored_spell",
      (you_cast_spell_actor & W("cast") | player_cast_spell_actor & W("casts")) & W("a") & cast_spell_descriptor
      & W("spell"))
basic_land_type_is_tapped_for_mana ==
    N("basic_land_type_is_tapped_for_mana",
      (W("a") & basic_land_type | W("enchanted") & enchanted_object) & W("is tapped for mana"))
basic_land_type_controller_becomes_status ==
    N("basic_land_type_controller_becomes_status",
      W("a") & basic_land_type & permanent_controller & W("becomes") & object_status)
source_attacks == N("source_attacks", source_object & W("attacks"))
colored_creature_attacks == N("colored_creature_attacks", W("a") & color_word & W("creature attacks"))
one_or_more_creatures_you_control_attack ==
    N("one_or_more_creatures_you_control_attack",
      W("one or more creatures you control attack"))
original_printing_expansion_clause ==
    N("original_printing_expansion_clause",
      W("with a name originally printed in the") & proper_name & W("expansion"))
one_or_more_permanents_with_original_printing_on_battlefield ==
    N("one_or_more_permanents_with_original_printing_on_battlefield",
      W("one or more") & Opt(W("other")) & Opt(W("nontoken")) & W("permanents")
      & original_printing_expansion_clause & W("are on the battlefield"))
permanent_enters == N("permanent_enters", (W("a") & permanent_type | source_object) & W("enters"))
trigger_event ==
    you_are_dealt_damage | permanent_put_into_graveyard_from_battlefield
    | permanent_dealt_damage_by_source_this_turn_dies | source_put_into_graveyard_from_battlefield | source_dies
    | source_deals_damage_to_an_opponent | source_is_dealt_damage | aura_leaves_battlefield | aura_enters
    | enchanted_permanent_dies | source_blocks_or_becomes_blocked_by_non_creature_type_creature
    | enchanted_object_becomes_status | you_control_no_basic_lands | end_of_combat
    | beginning_of_each_players_draw_step | beginning_of_your_draw_step | beginning_of_each_players_upkeep
    | beginning_of_your_upkeep | beginning_of_upkeep_of_enchanted_permanent_controller
    | beginning_of_chosen_players_upkeep | beginning_of_each_end_step | beginning_of_the_end_step
    | beginning_of_the_next_end_step | you_play_permanent | player_taps_permanent_for_mana
    | player_casts_colored_spell | basic_land_type_is_tapped_for_mana
    | basic_land_type_controller_becomes_status | source_attacks | colored_creature_attacks
    | one_or_more_creatures_you_control_attack | one_or_more_permanents_with_original_printing_on_battlefield
    | permanent_enters
trigger_event_clause == N("trigger_event_clause", trigger_event)
this_card_in_your_graveyard_with_cards_above_it ==
    N("this_card_in_your_graveyard_with_cards_above_it",
      W("this card is in your") & zone & W("with") & number_word & W("or more") & permanent_type
      & W("cards above it"))
its_on_the_battlefield == N("its_on_the_battlefield", W("it's on the battlefield"))
no_permanents_are_on_the_battlefield ==
    N("no_permanents_are_on_the_battlefield",
      W("no") & permanent_type_plural & W("are on the battlefield"))
enchanted_has_keyword == N("enchanted_has_keyword", W("enchanted") & enchanted_object & W("has") & keyword)
it_wasnt_first_permanent_you_played_this_turn ==
    N("it_wasnt_first_permanent_you_played_this_turn",
      W("it wasn't the first") & (permanent_object | permanent_type) & W("you played this turn"))
source_attacked_or_blocked_this_combat ==
    N("source_attacked_or_blocked_this_combat",
      source_object & W("attacked or blocked this combat"))
source_object_is_status == N("source_object_is_status", source_object & W("is") & object_status)
intervening_if ==
    this_card_in_your_graveyard_with_cards_above_it | its_on_the_battlefield
    | no_permanents_are_on_the_battlefield | enchanted_has_keyword
    | it_wasnt_first_permanent_you_played_this_turn | source_attacked_or_blocked_this_combat
    | source_object_is_status
trigger_intervening_if_clause == N("trigger_intervening_if_clause", W("if") & intervening_if & W(","))
trigger_condition == N("trigger_condition", trigger_event_clause & W(",") & Opt(trigger_intervening_if_clause))
trigger_effect_sequence == N("trigger_effect_sequence", trigger_effect & Star(Opt(W("and")) & trigger_effect))
triggered_ability == N("triggered_ability", trigger_word & trigger_condition & trigger_effect_sequence)
quoted_triggered_ability == W("\"") & triggered_ability & W("\"")
static_enchanted_has_triggered_ability ==
    N("static_enchanted_has_triggered_ability",
      W("enchanted") & enchanted_object & W("has") & quoted_triggered_ability)
aura_attachment_restriction == N("aura_attachment_restriction", W("and can't be enchanted by other auras"))
static_enchanted_has_keyword ==
    N("static_enchanted_has_keyword",
      W("enchanted") & enchanted_object & W("has") & keyword & Opt(aura_attachment_restriction) & W("."))
specific_basic_land_type == N("specific_basic_land_type", W("a") & basic_land_type)
chosen_basic_land_type == N("chosen_basic_land_type", W("the chosen type"))
basic_land_type_reference == specific_basic_land_type | chosen_basic_land_type
static_enchanted_is_basic_land_type ==
    N("static_enchanted_is_basic_land_type",
      W("enchanted") & enchanted_object & W("is") & basic_land_type_reference & W("."))
static_enchanted_can_attack_as_though_it_had ==
    N("static_enchanted_can_attack_as_though_it_had",
      W("enchanted") & enchanted_object & W("can attack as though it had") & keyword & W("."))
static_enchanted_can_attack_as_though_it_didnt_have ==
    N("static_enchanted_can_attack_as_though_it_didnt_have",
      W("enchanted") & enchanted_object & W("can attack as though it didn't have") & keyword & W("."))
static_enchanted_cant_be_blocked_except_by_creature_type ==
    N("static_enchanted_cant_be_blocked_except_by_creature_type",
      W("enchanted") & enchanted_object & W("can't be blocked except by") & creature_type_plural & W("."))
static_all_creatures_able_to_block_enchanted_do_so ==
    N("static_all_creatures_able_to_block_enchanted_do_so",
      W("all creatures able to block enchanted") & enchanted_object & W("do so."))
static_you_control_enchanted ==
    N("static_you_control_enchanted",
      W("you control enchanted") & enchanted_object & W("."))
static_you_have_no_maximum_hand_size ==
    N("static_you_have_no_maximum_hand_size",
      W("you have no maximum hand size."))
static_if_effect_causes_you_to_discard_card_you_may_put_it_on_top_of_library_instead ==
    N("static_if_effect_causes_you_to_discard_card_you_may_put_it_on_top_of_library_instead",
      W("if a effect causes you to discard a card, discard it, but you may put it on top of your library instead of into your graveyard."))
static_you_may_play_any_number_of_permanents_on_each_of_your_turns ==
    N("static_you_may_play_any_number_of_permanents_on_each_of_your_turns",
      W("you may play any number of") & permanent_type_plural & W("on each of your turns."))
play_restriction_action == N("play_restriction_action", W("cast spells") | W("play lands"))
static_play_restriction ==
    N("static_play_restriction",
      W("players can't") & play_restriction_action & Star(W("or") & play_restriction_action)
      & original_printing_expansion_clause & W("."))
copy_exception_with_quoted_triggered_ability ==
    N("copy_exception_with_quoted_triggered_ability",
      W(", except it doesn't copy that") & permanent_type & W("'s color and it has") & quoted_triggered_ability)
static_you_may_have_source_enter_as_copy ==
    N("static_you_may_have_source_enter_as_copy",
      W("you may have") & source_object & W("enter as a copy of any") & permanent_type & W("on the battlefield")
      & (copy_exception_with_quoted_triggered_ability | Opt(copy_exception) & W(".")))
static_source_enters_tapped == N("static_source_enters_tapped", source_object & W("enters tapped."))
static_source_attacks_each_combat_if_able ==
    N("static_source_attacks_each_combat_if_able",
      source_object & W("attacks each combat if able."))
static_source_cant_attack_unless_defending_player_controls_basic_land ==
    N("static_source_cant_attack_unless_defending_player_controls_basic_land",
      source_object & W("can't attack unless defending player controls a") & basic_land_type & W("."))
static_source_cant_be_blocked_by_creature_type ==
    N("static_source_cant_be_blocked_by_creature_type",
      source_object & W("can't be blocked by") & creature_type_plural & W("."))
static_source_doesnt_untap_during_your_untap_step ==
    N("static_source_doesnt_untap_during_your_untap_step",
      source_object & W("doesn't untap during your untap step.") | W("enchanted") & enchanted_object
      & W("doesn't untap during its controller's untap step."))
static_creatures_with_power_or_greater_dont_untap_during_their_controllers_untap_steps ==
    N("static_creatures_with_power_or_greater_dont_untap_during_their_controllers_untap_steps",
      static_untap_restriction_during_untap_steps & W("."))
static_source_cant_block_creatures_with_power_or_greater ==
    N("static_source_cant_block_creatures_with_power_or_greater",
      source_object & W("can't block creatures with power") & unsigned_number & W("or greater."))
non_creature_type_creatures_you_control ==
    N("non_creature_type_creatures_you_control",
      W("non-") & creature_type & W("creatures you control"))
basic_lands_you_control == N("basic_lands_you_control", basic_land_type_plural & W("you control"))
lands_you_control == N("lands_you_control", W("lands you control"))
creatures_named_on_battlefield ==
    N("creatures_named_on_battlefield",
      W("creatures named") & proper_name & W("on the battlefield"))
named_source_pt_count ==
    non_creature_type_creatures_you_control | basic_lands_you_control | lands_you_control
    | creatures_named_on_battlefield
static_named_source_pt_equal_to_count ==
    N("static_named_source_pt_equal_to_count",
      possessive_proper_name & W("'s power and toughness are each equal to the number of")
      & named_source_pt_count & W("."))
static_effect_doesnt_remove_this_aura ==
    N("static_effect_doesnt_remove_this_aura",
      W("this effect doesn't remove this aura."))
static_basic_lands_are_pt_colored_creatures_still_lands ==
    N("static_basic_lands_are_pt_colored_creatures_still_lands",
      W("all") & basic_land_type_plural & W("are") & unsigned_number & W("/") & unsigned_number
      & Opt(color_word) & W("creatures that are still lands."))
static_basic_lands_are_basic_lands ==
    N("static_basic_lands_are_basic_lands",
      W("all") & basic_land_type_plural & W("are") & basic_land_type_plural & W("."))
static_that_permanent_is_basic_land_type_while_has_named_counter ==
    N("static_that_permanent_is_basic_land_type_while_has_named_counter",
      W("that") & permanent_type & W("is a") & basic_land_type & W("for as long as it has a") & named_counter
      & W("on it."))
you_may_pay_mana == player_may_pay_mana
trigger_effect_fragment_sequence ==
    N("trigger_effect_fragment_sequence",
      you_may_pay_mana & if_you_do_gain_life_fragment | you_may_have_source_become_copy_of_target_fragment)
triggered_ability_fragment ==
    N("triggered_ability_fragment",
      trigger_word & trigger_condition & trigger_effect_fragment_sequence & Unless(W(".")))
discard_cards_action == N("discard_cards_action", W("discard cards"))
sacrifice_permanents_implicit_plural_object == permanent_type_plural | W("permanents")
sacrifice_permanents_action ==
    N("sacrifice_permanents_action",
      W("sacrifice") & sacrifice_permanents_implicit_plural_object)
balance_same_way_action == discard_cards_action | sacrifice_permanents_action
players_do_actions_the_same_way ==
    N("players_do_actions_the_same_way",
      W("players") & balance_same_way_action & Star(W("and") & balance_same_way_action) & W("the same way."))
source_enters_with_pt_counters ==
    N("source_enters_with_pt_counters",
      source_object & W("enters with") & counter_amount & pt_counters & W("on it."))
this_ability_cant_cause_total_pt_counters_greater_than ==
    N("this_ability_cant_cause_total_pt_counters_greater_than",
      W("this ability can't cause the total number of") & pt_counters & W("on") & source_object
      & W("to be greater than") & number_word & W("."))
activate_only_during_combat == N("activate_only_during_combat", W("activate only during combat."))
activate_only_during_your_turn_and_only_once_each_turn ==
    N("activate_only_during_your_turn_and_only_once_each_turn",
      W("activate only during your turn and only once each turn."))
activate_only_during_your_turn == N("activate_only_during_your_turn", W("activate only during your turn."))
activate_only_during_opponents_turn_before_attackers_declared ==
    N("activate_only_during_opponents_turn_before_attackers_declared",
      W("activate only during a opponent's turn, before attackers are declared."))
activate_only_as_sorcery == N("activate_only_as_sorcery", W("activate only as a sorcery."))
choose_one == N("choose_one", W("choose one --"))
modal_choice == N("modal_choice", choose_one & Star(W("\n") & modal_mode))
label_phrase == N("label_phrase", label_word)
semicolon_keyword_ability_list == N("semicolon_keyword_ability_list", keyword & Plus(W(";") & keyword))
keyword_ability_list == N("keyword_ability_list", keyword & Plus(W(",") & keyword))
keyword_ability == N("keyword_ability", keyword)
static_enchanted_loses_keyword_fragment ==
    N("static_enchanted_loses_keyword_fragment",
      W("enchanted") & enchanted_object & W("loses") & keyword & Opt(W(".")))

---------------------------------------------------------------------------
SentenceStatements == <<
    modal_mode, cast_restriction, this_spell_costs_mana_more_to_cast_for_each_target_beyond_the_first,
    ante_play_restriction, you_own_target_card_in_zone, exchange_that_card_with_top_card_of_your_library,
    return_target_card_from_your_zone_to_zone, return_enchanted_card_and_attach,
    copy_target_spell_except_copy_is_color, you_may_choose_new_targets_for_the_copy, tap_enchanted_object,
    untap_enchanted_object, unless_you_pay_mana_do_actions, imperative_action_sequence,
    tap_target_permanent_choice, untap_target_permanent, counter_target_spell,
    as_additional_cost_to_cast_this_spell, destroy_referenced_creature_at_beginning_of_next_end_step,
    destroy, exile, that_permanents_controller_may_attach_this_aura_to_permanent_of_their_choice,
    regenerate_source, regenerate_target_creature, damage_trigger_effect_sequence, damage_event_statement,
    next_card_draw_replacement, next_damage_event_effect, next_damage_redirection_effect,
    damage_prevention_effect, for_each_damage_prevented_by_removing_pt_counter,
    spend_only_color_mana_on_variable, if_you_pay_source_deals_damage,
    as_source_enters_you_lose_life_equal_to_your_life_total, you_gain_life_equal_damage,
    you_dont_lose_game_for_having_zero_or_less_life, if_you_would_gain_life_draw_that_many_cards_instead,
    static_life_total_floor_replacement, variable_cant_be_number, if_you_cant_you_lose_the_game,
    it_cant_be_regenerated, if_its_permanent_cant_be_regenerated_and_would_die_exile_instead_this_turn,
    tap_all_permanents_then_mana_loss, payment_failure_tap_mana_sources, player_payment_failure,
    target_player_activates_mana_ability_of_each_permanent_they_control, control_player_effect,
    referenced_card_play_instruction, mana_ability_activation_limit, conditional_control_player_effect,
    then_that_player_loses_unspent_mana_and_you_add_mana_lost_this_way, player_loses_life,
    you_lose_the_game, you_gain_life, target_player_gains_life, its_controller_gains_life,
    take_extra_turn_after_this_one, if_you_would_event_you_may_skip_that_instead,
    look_at_top_cards_of_target_players_library_then_put_them_back_in_any_order,
    you_may_have_that_player_shuffle, draw_cards, activated_draw_cards,
    choose_creature_card_in_hand_payable_by_mana_spent_on_variable,
    choose_target_non_creature_type_creature_active_player_controlled_continuously,
    put_named_counters_on_source, delayed_remove_all_named_counters_from_linked_land,
    put_pt_counters_on_source, put_named_counter_on_target_non_basic_land, player_may_pay_mana,
    that_player_adds_mana_of_any_type_that_permanent_produced, its_controller_adds_an_additional_mana,
    that_player_draws_an_additional_card, you_may_draw_cards, remove_pt_counter_from_it,
    that_creatures_controller_sacrifices_it, their_controllers_sacrifice_them,
    sacrifice_that_many_nontoken_permanents, sacrifice_permanent_other_than_source,
    sacrifice_source_effect, sacrifice_source_unless_you_pay, you_may_remove_named_counter_from_source,
    you_may_have_source_become_copy_of_target, you_may_put_this_card_onto_the_battlefield,
    player_discards_cards, target_player_discards_cards_at_random,
    gain_control_of_target_permanent_for_as_long_as_you_control_source, add_mana_of_any_one_color,
    add_mana, flip_coin, if_you_flip_result_effect, if_you_cant_source_deals_damage_to_you, create_token,
    until_eot_you_may_pay_cost_at_timing, if_you_do_effect, if_you_do_gain_life_fragment,
    if_you_do_cast_that_card_face_down_without_paying_mana_cost,
    if_face_down_spell_creature_would_assign_or_deal_damage_or_tap_turn_face_up_instead,
    if_this_ability_activated_at_least_times_this_turn_sacrifice_source_at_next_end_step,
    only_sources_owner_may_activate_this_ability,
    change_text_of_target_spell_or_permanent_replacing_basic_land_type,
    target_spell_or_permanent_becomes_color, target_permanent_becomes_basic_land_type_until_source_leaves,
    target_creature_with_power_or_less_cant_be_blocked, target_permanent_until_eot,
    activated_enchanted_gets_until_eot, activated_source_becomes_pt_creature_until_end_of_combat,
    activated_source_gets_until_eot, activated_source_gains_keyword_until_eot, each_player_performs_action,
    remove_target_creature_defending_player_controls_from_combat,
    creatures_it_was_blocking_become_unblocked, you_may_have_it_block_attacking_creature,
    creatures_attack_this_turn_if_able, target_creature_defending_player_controls_can_block_any_number,
    it_blocks_each_attacking_creature_if_able,
    ignore_this_effect_for_each_creature_player_didnt_control_continuously,
    this_turn_defending_players_make_random_blocking_piles,
    additional_blockers_may_be_put_into_additional_piles, assign_each_pile_to_attacking_creature_at_random,
    defending_player_divides_creatures_without_keyword_into_labeled_piles,
    creatures_in_assigned_pile_block_if_able,
    then_for_each_attacking_creature_choose_label_blocking_restriction, loses_and_gains_keyword,
    source_gains_static_ability, as_source_enters_choose, activated_ability_with_activation_permission,
    activated_ability, static_as_long_as, static_mana_spending_permission,
    static_colored_spells_cost_mana_more_to_cast,
    static_activated_abilities_of_colored_permanents_cost_mana_more_to_activate,
    static_colored_permanents_get, static_other_creature_type_get_and_have_keyword,
    static_status_creatures_you_control_get, static_enchanted_gets, static_enchanted_gets_with_definitions,
    static_enchanted_has_triggered_ability, static_enchanted_has_keyword, static_enchanted_loses_keyword,
    static_enchanted_is_basic_land_type, static_enchanted_can_attack_as_though_it_had,
    static_enchanted_can_attack_as_though_it_didnt_have,
    static_enchanted_cant_be_blocked_except_by_creature_type,
    static_all_creatures_able_to_block_enchanted_do_so, static_you_control_enchanted,
    static_you_have_no_maximum_hand_size, you_dont_lose_game_for_having_zero_or_less_life,
    if_you_would_gain_life_draw_that_many_cards_instead, static_life_total_floor_replacement,
    static_if_effect_causes_you_to_discard_card_you_may_put_it_on_top_of_library_instead,
    static_you_may_play_any_number_of_permanents_on_each_of_your_turns, static_play_restriction,
    static_you_may_have_source_enter_as_copy, static_source_enters_tapped,
    static_source_attacks_each_combat_if_able,
    static_source_cant_attack_unless_defending_player_controls_basic_land,
    static_source_cant_be_blocked_by_creature_type, static_source_doesnt_untap_during_your_untap_step,
    static_creatures_with_power_or_greater_dont_untap_during_their_controllers_untap_steps,
    static_source_cant_block_creatures_with_power_or_greater, static_named_source_pt_equal_to_count,
    static_effect_doesnt_remove_this_aura, static_basic_lands_are_pt_colored_creatures_still_lands,
    static_basic_lands_are_basic_lands, static_that_permanent_is_basic_land_type_while_has_named_counter,
    triggered_ability_fragment, triggered_ability, physical_action, players_do_actions_the_same_way,
    source_enters_with_pt_counters, this_ability_cant_cause_total_pt_counters_greater_than,
    activate_only_during_your_upkeep, activate_only_during_combat,
    activate_only_during_your_turn_and_only_once_each_turn, activate_only_during_your_turn,
    activate_only_during_opponents_turn_before_attackers_declared, activate_only_as_sorcery >>
PhraseStatements == <<
    modal_choice, you_play_permanent, player_casts_colored_spell, player_taps_permanent_for_mana,
    you_are_dealt_damage, you_cast_spell_actor, player_cast_spell_actor, cast_spell_descriptor, mana_cost,
    pay_mana_amount, pay_mana_player, label_phrase, ante_top_card_of_your_library_action,
    tap_source_action, sacrifice_permanents_action, sacrifice_source, draw_cards_action,
    draw_that_many_cards_replacement_result, activation_limit_context, mana_ability_source_limit,
    produced_mana_spending_limit, mana_spending_purpose, control_duration, spell_resolution_duration,
    control_player_condition, semicolon_keyword_ability_list, keyword_ability_list, keyword_ability,
    triggered_ability_fragment, life_loss_player, permanent_put_into_graveyard_from_battlefield,
    permanent_enters, permanent_dealt_damage_by_source_this_turn_dies,
    static_enchanted_loses_keyword_fragment, continuous_effect, variable_definition, variable_name,
    value_expression, this_card_in_your_graveyard_with_cards_above_it, condition,
    it_wasnt_first_permanent_you_played_this_turn >>

sentence_statement == condition & Ahead(End | W("\n")) | FirstOfAll(SentenceStatements)
phrase_statement == FirstOfAll(PhraseStatements)
sentence_chain == Plus(sentence_statement)
line == sentence_chain | phrase_statement
abilities == line & Star(W("\n") & line)
\* A mutant: the choice, which never comes back to a later alternative, tries the phrases first.
card_text_phrases_first == Split((modal_choice | phrase_statement | abilities) & End)

card_text == Split((modal_choice | abilities | phrase_statement) & End)
=============================================================================
