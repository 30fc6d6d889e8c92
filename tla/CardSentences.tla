--------------------------- MODULE CardSentences ----------------------------
(***************************************************************************)
(* The rules of the other sentences of a spell or of an effect             *)
(* (grammar.pest), the terms they are made of first.                       *)
(***************************************************************************)
EXTENDS CardTriggerRules

draw_count == card_count
filter_top_library_cards ==
    N("filter_top_library_cards",
      W("look at the top") & draw_count
      & W("cards of your library, put all but one of them on the bottom of your library in a random order, then draw a card."))
next_card_draw_replacement ==
    N("next_card_draw_replacement",
      W("the next time you would draw a card this turn, instead") & filter_top_library_cards)
for_each_damage_prevented_by_removing_pt_counter ==
    N("for_each_damage_prevented_by_removing_pt_counter",
      W("for each") & damage_amount_expression & W("damage that would be dealt to") & source_object
      & W(", if it has a") & pt_counter & W("on it, remove a") & pt_counter & W("from it and prevent that")
      & damage_amount_expression & W("damage."))
spend_only_color_mana_on_variable ==
    N("spend_only_color_mana_on_variable",
      W("spend only") & color_word & W("mana on") & variable_name & W("."))
named_counter_count_on_it ==
    N("named_counter_count_on_it",
      W("equal to the number of") & named_counters & W("on it"))
if_you_pay_source_deals_damage ==
    N("if_you_pay_source_deals_damage",
      W("if you pay,") & source_object & W("deals damage") & named_counter_count_on_it & W("to")
      & damage_event_assignment_recipient & Star(W("and") & damage_event_assignment_recipient) & W("."))
as_source_enters_you_lose_life_equal_to_your_life_total ==
    N("as_source_enters_you_lose_life_equal_to_your_life_total",
      W("as") & source_object & W("enters, you lose life equal to your life total."))
player_life_total_before_damage_dealt ==
    N("player_life_total_before_damage_dealt",
      W("the player's life total before the damage was dealt"))
planeswalker_loyalty_before_damage_dealt ==
    N("planeswalker_loyalty_before_damage_dealt",
      W("the planeswalker's loyalty before the damage was dealt"))
creature_toughness == N("creature_toughness", W("the creature's toughness"))
damage_life_gain_cap ==
    player_life_total_before_damage_dealt | planeswalker_loyalty_before_damage_dealt | creature_toughness
you_gain_life_equal_damage_dealt_capped ==
    N("you_gain_life_equal_damage_dealt_capped",
      W("you gain life equal to the damage dealt, but not more life than") & damage_life_gain_cap & Star(W(",")
      & damage_life_gain_cap) & Opt(W(",")) & W("or") & damage_life_gain_cap & W("."))
you_gain_life_equal_damage_prevented_this_way ==
    N("you_gain_life_equal_damage_prevented_this_way",
      W("you gain life equal to the damage prevented this way."))
you_gain_life_equal_damage_dealt_to_you_this_turn ==
    N("you_gain_life_equal_damage_dealt_to_you_this_turn",
      W("you gain life equal to the") & damage_dealt_to_you_this_turn & W("."))
you_gain_life_equal_damage ==
    N("you_gain_life_equal_damage",
      you_gain_life_equal_damage_dealt_capped | you_gain_life_equal_damage_prevented_this_way
      | you_gain_life_equal_damage_dealt_to_you_this_turn)
you_dont_lose_game_for_having_zero_or_less_life ==
    N("you_dont_lose_game_for_having_zero_or_less_life",
      W("you don't lose the game for having 0 or less life."))
life_gain_replacement_affected_player == N("life_gain_replacement_affected_player", W("you"))
life_gain_replacement_replaced_event == N("life_gain_replacement_replaced_event", W("gain life"))
draw_that_many_cards_replacement_result ==
    N("draw_that_many_cards_replacement_result",
      W("draw") & draw_that_many_cards_object)
life_gain_replacement_result == N("life_gain_replacement_result", draw_that_many_cards_replacement_result)
life_gain_replacement_effect ==
    N("life_gain_replacement_effect",
      W("if") & life_gain_replacement_affected_player & W("would") & life_gain_replacement_replaced_event
      & W(",") & life_gain_replacement_result & W("instead."))
if_you_would_gain_life_draw_that_many_cards_instead ==
    N("if_you_would_gain_life_draw_that_many_cards_instead",
      life_gain_replacement_effect)
life_total_floor_cause == N("life_total_floor_cause", W("damage"))
life_total_floor_player == N("life_total_floor_player", W("your"))
static_life_total_floor_replacement ==
    N("static_life_total_floor_replacement",
      life_total_floor_cause & W("that would reduce") & life_total_floor_player & W("life total to less than")
      & unsigned_number & W("reduces it to") & unsigned_number & W("instead."))
variable_cant_be_number ==
    N("variable_cant_be_number",
      variable_name & W("can't be") & unsigned_number & W("."))
if_you_cant_you_lose_the_game == N("if_you_cant_you_lose_the_game", W("if you can't, you lose the game."))
it_cant_be_regenerated == N("it_cant_be_regenerated", (W("it") | W("they")) & W("can't be regenerated."))
if_its_permanent_cant_be_regenerated_and_would_die_exile_instead_this_turn ==
    N("if_its_permanent_cant_be_regenerated_and_would_die_exile_instead_this_turn",
      W("if it's a") & permanent_type
      & W(", it can't be regenerated this turn, and if it would die this turn, exile it instead."))
tap_all_controlled_permanents_scope == W("all") & permanent_type_plural
that_player_loses_all_unspent_mana == W("that player loses all unspent mana")
tap_all_permanents_then_mana_loss ==
    N("tap_all_permanents_then_mana_loss",
      W("tap") & tap_all_controlled_permanents_scope & W("target player controls and")
      & that_player_loses_all_unspent_mana & W("."))
with_mana_abilities == N("with_mana_abilities", W("with mana abilities"))
tap_all_controlled_permanents_scope_with_optional_mana_abilities ==
    tap_all_controlled_permanents_scope & Opt(with_mana_abilities)
lose_all_unspent_mana == W("lose all unspent mana")
payment_failure_tap_mana_sources ==
    N("payment_failure_tap_mana_sources",
      W("they tap") & tap_all_controlled_permanents_scope_with_optional_mana_abilities & W("they control and")
      & lose_all_unspent_mana)
payment_failure_effect == payment_failure_tap_mana_sources
player_payment_failure ==
    N("player_payment_failure",
      W("if that player doesn't,") & payment_failure_effect & W("."))
target_player_activates_mana_ability_of_each_permanent_they_control ==
    N("target_player_activates_mana_ability_of_each_permanent_they_control",
      W("target player activates a mana ability of each") & permanent_type & W("they control."))
controller_ref == N("controller_ref", W("you"))
controlled_player_ref == N("controlled_player_ref", W("that player") | W("the player"))
source_resolution_duration == N("source_resolution_duration", proper_name & W("finishes resolving"))
spell_resolution_duration == N("spell_resolution_duration", W("that spell is resolving"))
control_duration ==
    N("control_duration",
      W("until") & source_resolution_duration | W("while") & spell_resolution_duration)
control_player_effect ==
    N("control_player_effect",
      Ahead(controller_ref & W("control") & controlled_player_ref) & controller_ref & W("control")
      & controlled_player_ref & control_duration & W("."))
referenced_card_ref == N("referenced_card_ref", W("that card"))
if_able_clause == N("if_able_clause", W("if able"))
referenced_card_play_instruction ==
    N("referenced_card_play_instruction",
      controlled_player_ref & W("plays") & referenced_card_ref & Opt(if_able_clause) & W("."))
activation_limit_context == N("activation_limit_context", W("while doing so"))
mana_ability_source_limit == N("mana_ability_source_limit", W("they're from lands that player controls"))
mana_spending_purpose ==
    N("mana_spending_purpose",
      W("activate other mana abilities of lands the player controls") | W("play") & referenced_card_ref)
produced_mana_spending_limit ==
    N("produced_mana_spending_limit",
      W("mana they produce is spent to") & mana_spending_purpose & Star(W("and/or to") & mana_spending_purpose))
mana_ability_activation_limit ==
    N("mana_ability_activation_limit",
      activation_limit_context & W(",") & controlled_player_ref & W("can activate mana abilities only if")
      & mana_ability_source_limit & W("and only if") & produced_mana_spending_limit & W("."))
control_player_condition == N("control_player_condition", W("the chosen card is cast as a spell"))
conditional_control_player_effect ==
    N("conditional_control_player_effect",
      W("if") & control_player_condition & W(",") & control_player_effect)
then_that_player_loses_unspent_mana_and_you_add_mana_lost_this_way ==
    N("then_that_player_loses_unspent_mana_and_you_add_mana_lost_this_way",
      W("then that player loses all unspent mana and you add the mana lost this way."))
its_controller_life_gain_recipient == W("its controller")
its_controller_gains_life ==
    N("its_controller_gains_life",
      its_controller_life_gain_recipient & player_gains_life_predicate & W("."))
take_extra_turn_after_this_one == N("take_extra_turn_after_this_one", W("take a extra turn after this one."))
draw_card_during_your_draw_step ==
    N("draw_card_during_your_draw_step",
      W("if you would draw a card during your draw step"))
begin_your_turn_while_source_is_status ==
    N("begin_your_turn_while_source_is_status",
      W("if you would begin your turn while") & source_object & W("is") & object_status)
if_you_would_skip_event == draw_card_during_your_draw_step | begin_your_turn_while_source_is_status
skip_event_reference == W("draw") | W("turn")
skip_event_instead_prefix ==
    N("skip_event_instead_prefix",
      W("instead you may skip that") & skip_event_reference)
skip_event_instead_suffix ==
    N("skip_event_instead_suffix",
      W("you may skip that") & skip_event_reference & W("instead"))
if_you_would_event_you_may_skip_that_instead ==
    N("if_you_would_event_you_may_skip_that_instead",
      if_you_would_skip_event & W(",") & (skip_event_instead_prefix | skip_event_instead_suffix) & W("."))
look_at_top_cards_of_target_players_library_then_put_them_back_in_any_order ==
    N("look_at_top_cards_of_target_players_library_then_put_them_back_in_any_order",
      W("look at the top") & draw_count
      & W("cards of target player's library, then put them back in any order."))
you_may_have_that_player_shuffle ==
    N("you_may_have_that_player_shuffle",
      W("you may have that player shuffle."))
draw_cards == N("draw_cards", W("target player draws") & draw_card_object & W("."))
choose_creature_card_in_hand_payable_by_mana_spent_on_variable ==
    N("choose_creature_card_in_hand_payable_by_mana_spent_on_variable",
      W("you may choose a creature card in your hand whose mana cost could be paid by some amount of, or all of, the mana you spent on")
      & variable_mana_symbol & W("."))
choose_target_non_creature_type_creature_active_player_controlled_continuously ==
    N("choose_target_non_creature_type_creature_active_player_controlled_continuously",
      W("choose target non-") & creature_type
      & W("creature the active player has controlled continuously since the beginning of the turn."))
put_up_to_counter_amount == N("put_up_to_counter_amount", W("up to") & counter_amount)
put_exact_counter_amount == N("put_exact_counter_amount", counter_amount)
put_single_counter_amount == N("put_single_counter_amount", W("a"))
pt_counter_put_amount ==
    N("pt_counter_put_amount",
      put_up_to_counter_amount | put_exact_counter_amount | put_single_counter_amount)
put_pt_counters_on_source ==
    N("put_pt_counters_on_source",
      W("put") & pt_counter_put_amount & (pt_counters | pt_counter) & W("on") & source_object & W("."))
put_named_counter_on_target_non_basic_land ==
    N("put_named_counter_on_target_non_basic_land",
      W("put a") & named_counter & W("on target") & non_basic_land_type & permanent_type & W("."))
target_player_discard_actor == W("target player")
target_player_discard_prefix == target_player_discard_actor & W("discards")
each_player_discard_actor == W("each player")
each_player_discard_prefix == each_player_discard_actor & W("discards")
you_discard_actor == W("you")
you_discard_prefix == you_discard_actor & W("discard")
player_discard_prefix ==
    target_player_discard_prefix | that_player_discard_prefix | each_player_discard_prefix | you_discard_prefix
discard_amount == discard_one_card | discard_counted_cards
discard_randomness == discard_at_random
player_discards_cards ==
    N("player_discards_cards",
      player_discard_prefix & discard_amount & Opt(discard_randomness) & W("."))
target_player_discards_cards_at_random ==
    N("target_player_discards_cards_at_random",
      target_player_discard_prefix & discard_amount & discard_at_random & W("."))
gain_control_of_target_permanent_for_as_long_as_you_control_source ==
    N("gain_control_of_target_permanent_for_as_long_as_you_control_source",
      W("gain control of target") & permanent_type & W("for as long as you control") & source_object & W("."))
add_one_mana_of_any_color == N("add_one_mana_of_any_color", W("add one mana of any color"))
add_mana_of_any_one_color ==
    N("add_mana_of_any_one_color",
      (W("add") & number_word & W("mana of any one color") | add_one_mana_of_any_color) & W("."))
amount_of_mana_equal_to_sacrificed_permanent_mana_value ==
    N("amount_of_mana_equal_to_sacrificed_permanent_mana_value",
      W("a amount of") & mana_symbol & W("equal to the sacrificed") & permanent_type & W("'s mana value"))
add_mana_amount == mana_cost | amount_of_mana_equal_to_sacrificed_permanent_mana_value
add_mana == N("add_mana", W("add") & add_mana_amount & W("."))
flip_coin == N("flip_coin", W("flip a coin."))
coin_flip_result == N("coin_flip_result", W("win") | W("lose"))
target_permanent_becomes_basic_land_type_until_source_leaves ==
    N("target_permanent_becomes_basic_land_type_until_source_leaves",
      W("target") & permanent_type & W("becomes a") & basic_land_type & W("until") & source_object
      & W("leaves the battlefield."))
counter_target_colored_spell == N("counter_target_colored_spell", counter_target_colored_spell_action & W("."))
untap_source == N("untap_source", W("untap") & source_object & W("."))
colorless_word == Atom("colorless_word", <<"colorless">>)
token_color == N("token_color", color_word | colorless_word)
token_keyword_clause == N("token_keyword_clause", W("with") & keyword)
token_name_clause == N("token_name_clause", W("named") & proper_name)
create_token ==
    N("create_token",
      W("create a") & unsigned_number & W("/") & unsigned_number & Opt(token_color) & Opt(creature_type)
      & Plus(permanent_type) & W("token") & Opt(token_keyword_clause) & Opt(token_name_clause) & W("."))
look_at_target_players_hand == N("look_at_target_players_hand", look_at_target_hand_action & W("."))
target_player_discards_cards ==
    N("target_player_discards_cards",
      target_player_discard_prefix & discard_amount & W("."))
target_creature_with_power_or_less_cant_be_blocked ==
    N("target_creature_with_power_or_less_cant_be_blocked",
      W("target creature with power") & unsigned_number & W("or less can't be blocked this turn."))
controlled_creature_with_toughness_less_than_source_power ==
    N("controlled_creature_with_toughness_less_than_source_power",
      W("creature you control with toughness less than") & source_object & W("'s power"))
combat_role == Atom("combat_role", <<"attacking", "blocking">>)
target_permanent_selector ==
    N("target_permanent_selector",
      controlled_creature_with_toughness_less_than_source_power | combat_role & W("creature") | permanent_type)
target_permanent_gains_keyword_eot_effect ==
    N("target_permanent_gains_keyword_eot_effect",
      W("gains") & keyword & W("until end of turn"))
target_permanent_gains_keyword_until_eot ==
    N("target_permanent_gains_keyword_until_eot",
      W("target") & target_permanent_selector & target_permanent_gains_keyword_eot_effect & W("."))
activated_source_becomes_pt_creature_until_end_of_combat ==
    N("activated_source_becomes_pt_creature_until_end_of_combat",
      source_object & Ahead(W("becomes")) & W("becomes a") & unsigned_number & W("/") & unsigned_number
      & creature_type & Plus(permanent_type) & W("until end of combat."))
activated_source_gains_keyword_until_eot ==
    N("activated_source_gains_keyword_until_eot",
      source_object & W("gains") & keyword & W("until end of turn."))
activated_source_gets_until_eot ==
    N("activated_source_gets_until_eot",
      source_object & W("gets") & pt_modifier & W("until end of turn."))
activated_enchanted_gets_until_eot ==
    N("activated_enchanted_gets_until_eot",
      W("enchanted") & permanent_type & W("gets") & pt_modifier & W("until end of turn."))
physical_height_unit == Atom("physical_height_unit", <<"feet", "foot">>)
if_source_on_battlefield_flip_onto_battlefield_from_height ==
    N("if_source_on_battlefield_flip_onto_battlefield_from_height",
      W("if") & source_object
      & W("is on the battlefield, flip it onto the battlefield from a height of at least") & number_word
      & physical_height_unit & W("."))
if_source_turns_over_destroy_touched_nontoken_permanents ==
    N("if_source_turns_over_destroy_touched_nontoken_permanents",
      W("if") & source_object
      & W("turns over completely at least once during the flip, destroy all nontoken permanents it touches."))
then_destroy_source == N("then_destroy_source", W("then destroy") & (source_object | proper_name) & W("."))
physical_action ==
    if_source_on_battlefield_flip_onto_battlefield_from_height
    | if_source_turns_over_destroy_touched_nontoken_permanents | then_destroy_source
activated_effect ==
    add_mana_of_any_one_color | add_mana | tap_target_permanent_choice
    | target_permanent_becomes_basic_land_type_until_source_leaves | destroy | regenerate_source
    | colored_target_effect | counter_target_colored_spell | untap_target_permanent | untap_source
    | untap_enchanted_object | take_extra_turn_after_this_one | next_card_draw_replacement
    | imperative_action_sequence | activated_draw_cards | flip_coin | create_token | look_at_target_players_hand
    | target_player_discards_cards | gain_control_of_target_permanent_for_as_long_as_you_control_source
    | target_creature_with_power_or_less_cant_be_blocked | target_permanent_gains_keyword_until_eot
    | activated_source_becomes_pt_creature_until_end_of_combat | activated_source_gains_keyword_until_eot
    | activated_source_gets_until_eot | activated_enchanted_gets_until_eot | activated_damage_effect
    | put_pt_counters_on_source | put_named_counter_on_target_non_basic_land
    | choose_creature_card_in_hand_payable_by_mana_spent_on_variable
    | choose_target_non_creature_type_creature_active_player_controlled_continuously | physical_action
if_you_flip_result_effect ==
    N("if_you_flip_result_effect",
      W("if you") & coin_flip_result & W("the flip,") & activated_effect)
if_you_cant_source_deals_damage_to_you ==
    N("if_you_cant_source_deals_damage_to_you",
      W("if you can't,") & source_object & W("deals") & damage_amount & W("damage to you."))
any_time_you_could_activate_a_mana_ability ==
    N("any_time_you_could_activate_a_mana_ability",
      W("any time you could activate a mana ability"))
any_time_you_could_cast_an_instant ==
    N("any_time_you_could_cast_an_instant",
      W("any time you could cast a instant"))
action_timing == any_time_you_could_activate_a_mana_ability | any_time_you_could_cast_an_instant
pay_life_cost == N("pay_life_cost", W("pay") & unsigned_number & W("life"))
pay_mana_cost == N("pay_mana_cost", W("pay") & mana_cost)
optional_cost == pay_life_cost | pay_mana_cost
until_eot_you_may_pay_cost_at_timing ==
    N("until_eot_you_may_pay_cost_at_timing",
      W("until end of turn,") & (action_timing & W(", you may") & optional_cost | W("you may") & optional_cost
      & action_timing) & W("."))
if_do_actor == W("if you do,") | W("if the player does,")
untap_referenced_permanent == N("untap_referenced_permanent", W("untap the") & permanent_type & W("."))
cant_be_attacked_until_your_next_turn_except_by_creatures_with_keywords ==
    N("cant_be_attacked_until_your_next_turn_except_by_creatures_with_keywords",
      W("until your next turn, you can't be attacked except by creatures with") & keyword_and_or_list & W("."))
may_cast_that_card_face_down_as_creature_spell_without_paying_mana_cost ==
    N("may_cast_that_card_face_down_as_creature_spell_without_paying_mana_cost",
      W("you may cast that card face down as a") & unsigned_number & W("/") & unsigned_number
      & W("creature spell without paying its mana cost."))
if_you_do_effect_body ==
    add_mana | untap_source | untap_referenced_permanent | gain_life_effect | damage_prevention_effect_this_turn
    | cant_be_attacked_until_your_next_turn_except_by_creatures_with_keywords
    | may_cast_that_card_face_down_as_creature_spell_without_paying_mana_cost
if_you_do_effect == N("if_you_do_effect", if_do_actor & if_you_do_effect_body)
if_you_do_gain_life_fragment ==
    N("if_you_do_gain_life_fragment",
      W("if you do, you gain") & unsigned_number & W("life"))
if_you_do_cast_that_card_face_down_without_paying_mana_cost ==
    N("if_you_do_cast_that_card_face_down_without_paying_mana_cost",
      if_do_actor & may_cast_that_card_face_down_as_creature_spell_without_paying_mana_cost)
if_face_down_spell_creature_would_assign_or_deal_damage_or_tap_turn_face_up_instead ==
    N("if_face_down_spell_creature_would_assign_or_deal_damage_or_tap_turn_face_up_instead",
      W("if the creature that spell becomes as it resolves has not been turned face up and would assign or deal damage, be dealt damage, or become tapped, instead it's turned face up and assigns or deals damage, is dealt damage, or becomes tapped."))
if_this_ability_activated_at_least_times_this_turn_sacrifice_source_at_next_end_step ==
    N("if_this_ability_activated_at_least_times_this_turn_sacrifice_source_at_next_end_step",
      W("if this ability has been activated") & number_word & W("or more times this turn, sacrifice")
      & source_object & W("at") & beginning_of_the_next_end_step & W("."))
only_sources_owner_may_activate_this_ability ==
    N("only_sources_owner_may_activate_this_ability",
      W("only") & source_object_possessive & W("owner may activate this ability."))
text_change_replacement_term == N("text_change_replacement_term", W("basic land type") | W("color word"))
change_text_of_target_spell_or_permanent_replacing_basic_land_type ==
    N("change_text_of_target_spell_or_permanent_replacing_basic_land_type",
      W("change the text of target spell or permanent by replacing all instances of one")
      & text_change_replacement_term & W("with another."))
target_spell_or_permanent_becomes_color ==
    N("target_spell_or_permanent_becomes_color",
      W("target spell or permanent becomes") & color_word & W("."))
target_permanent_gains_keyword_and_gets_eot_effect ==
    N("target_permanent_gains_keyword_and_gets_eot_effect",
      W("gains") & keyword & W("and gets") & mixed_pt_modifier & W("until end of turn,") & where_clause)
target_permanent_gets_eot_effect ==
    N("target_permanent_gets_eot_effect",
      W("gets") & mixed_pt_modifier & W("until end of turn"))
target_permanent_eot_effect ==
    target_permanent_gains_keyword_and_gets_eot_effect | target_permanent_gets_eot_effect
    | target_permanent_gains_keyword_eot_effect
target_permanent_until_eot ==
    N("target_permanent_until_eot",
      W("target") & target_permanent_selector & target_permanent_eot_effect & W("."))
each_player_antes_top_card_of_their_library_action ==
    N("each_player_antes_top_card_of_their_library_action",
      W("antes the top card of their library"))
each_player_shuffles_their_hand_and_graveyard_into_their_library_action ==
    N("each_player_shuffles_their_hand_and_graveyard_into_their_library_action",
      W("shuffles their hand and graveyard into their library"))
each_player_discards_their_hand_action == N("each_player_discards_their_hand_action", W("discards their hand"))
each_player_equalizes_controlled_permanents ==
    N("each_player_equalizes_controlled_permanents",
      W("chooses a number of") & permanent_type_plural & W("they control equal to the number of")
      & permanent_type_plural & W("controlled by the player who controls the fewest, then sacrifices the rest"))
each_player_action ==
    each_player_antes_top_card_of_their_library_action
    | each_player_shuffles_their_hand_and_graveyard_into_their_library_action
    | each_player_discards_their_hand_action | each_player_equalizes_controlled_permanents | draw_cards_action
each_player_action_sequence ==
    N("each_player_action_sequence",
      each_player_action & Opt(Star(W(",") & each_player_action) & Opt(W(",")) & W("then")
      & each_player_action))
each_player_performs_action ==
    N("each_player_performs_action",
      W("each player") & each_player_action_sequence & W("."))
remove_target_creature_defending_player_controls_from_combat ==
    N("remove_target_creature_defending_player_controls_from_combat",
      W("remove target creature defending player controls from combat."))
creatures_it_was_blocking_become_unblocked ==
    N("creatures_it_was_blocking_become_unblocked",
      W("creatures it was blocking that had become blocked by only that creature this combat become unblocked."))
you_may_have_it_block_attacking_creature ==
    N("you_may_have_it_block_attacking_creature",
      W("you may have it block a attacking creature of your choice."))
creatures_active_player_controls_subject ==
    N("creatures_active_player_controls_subject",
      W("creatures the active player controls"))
attack_requirement_subject == that_creature_subject | creatures_active_player_controls_subject
attack_requirement_verb == W("attacks") | W("attack")
creatures_attack_this_turn_if_able ==
    N("creatures_attack_this_turn_if_able",
      attack_requirement_subject & attack_requirement_verb & W("this turn if able."))
blocking_capacity_subject ==
    N("blocking_capacity_subject",
      W("target creature defending player controls") | source_object)
blocking_capacity_any_number == N("blocking_capacity_any_number", W("any number of"))
blocking_capacity_additional_one == N("blocking_capacity_additional_one", W("a additional"))
blocking_capacity_amount ==
    N("blocking_capacity_amount",
      blocking_capacity_any_number | blocking_capacity_additional_one)
blocking_capacity_object == N("blocking_capacity_object", W("creatures") | W("creature"))
blocking_capacity_this_turn == N("blocking_capacity_this_turn", W("this turn"))
blocking_capacity_each_combat == N("blocking_capacity_each_combat", W("each combat"))
blocking_capacity_duration ==
    N("blocking_capacity_duration",
      blocking_capacity_this_turn | blocking_capacity_each_combat)
target_creature_defending_player_controls_can_block_any_number ==
    N("target_creature_defending_player_controls_can_block_any_number",
      blocking_capacity_subject & W("can block") & blocking_capacity_amount & blocking_capacity_object
      & blocking_capacity_duration & W("."))
it_blocks_each_attacking_creature_if_able ==
    N("it_blocks_each_attacking_creature_if_able",
      W("it blocks each attacking creature this turn if able."))
ignore_this_effect_for_each_creature_player_didnt_control_continuously ==
    N("ignore_this_effect_for_each_creature_player_didnt_control_continuously",
      W("ignore this effect for each creature the player didn't control continuously since the beginning of the turn."))
this_turn_defending_players_make_random_blocking_piles ==
    N("this_turn_defending_players_make_random_blocking_piles",
      W("this turn, instead of declaring blockers, each defending player chooses any number of creatures they control and divides them into a number of piles equal to the number of attacking creatures for whom that player is the defending player."))
additional_blockers_may_be_put_into_additional_piles ==
    N("additional_blockers_may_be_put_into_additional_piles",
      W("creatures those players control that can block additional creatures may likewise be put into additional piles."))
assign_each_pile_to_attacking_creature_at_random ==
    N("assign_each_pile_to_attacking_creature_at_random",
      W("assign each pile to a different one of those attacking creatures at random."))
creatures_in_assigned_pile_block_if_able ==
    N("creatures_in_assigned_pile_block_if_able",
      W("each creature in") & (W("a") | W("the"))
      & W("pile that can block the creature that pile is assigned to does so."))
then_for_each_attacking_creature_choose_label_blocking_restriction ==
    N("then_for_each_attacking_creature_choose_label_blocking_restriction",
      W("then, for each attacking creature you control, choose") & quoted_label & W("or")
      & quoted_label_with_inner_period
      & W("that creature can't be blocked this combat except by creatures with") & keyword
      & W("and creatures in a pile with the chosen label."))
opponent_choice == N("opponent_choice", W("a opponent"))
basic_land_type_choice == N("basic_land_type_choice", W("a basic land type"))
color_choice == N("color_choice", W("a color"))
as_enters_choice == opponent_choice | basic_land_type_choice | color_choice
as_source_enters_choose ==
    N("as_source_enters_choose",
      W("as") & source_object & W("enters, choose") & as_enters_choice & W("."))
=============================================================================
