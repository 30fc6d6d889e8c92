----------------------------- MODULE CardPlayers -----------------------------
(***************************************************************************)
(* The effects on players: life, mana, payments, the control of a player,  *)
(* what follows "if you do", and lists of keywords.                        *)
(***************************************************************************)
EXTENDS CardTargets

\* Printed as a sentence of its own.
write_template_sentence(prefix, body) == T(prefix) \o body \o T(".")

(* Life. *)
LifeGainCaps == [ PlayerLifeTotalBeforeDamageDealt |-> "the player's life total before the damage was dealt",
                  PlaneswalkerLoyaltyBeforeDamageDealt |->
                      "the planeswalker's loyalty before the damage was dealt",
                  CreatureToughness |-> "the creature's toughness" ]
damage_life_gain_cap_from_pair(p) == Spelled(p, LifeGainCaps)
you_gain_life_equal_damage_from_pair(p) ==
    LET inner == only_inner(p)
    IN  Node("YouGainLifeEqualToDamage",
             << CASE inner.rule = "you_gain_life_equal_damage_dealt_capped" ->
                       Node("DamageDealtCapped", <<Each(inner, damage_life_gain_cap_from_pair)>>)
                  [] inner.rule = "you_gain_life_equal_damage_prevented_this_way" -> Leaf("DamagePreventedThisWay")
                  [] inner.rule = "you_gain_life_equal_damage_dealt_to_you_this_turn" ->
                       Leaf("DamageDealtToYouThisTurn")
                  [] OTHER -> Internal >>)
as_source_enters_you_lose_life_equal_to_your_life_total_from_pair(p) ==
    Of("AsSourceEntersYouLoseLifeEqualToYourLifeTotal", p)
write_damage_life_gain_cap(a) == Written(a, LifeGainCaps)
write_damage_life_gain_caps(v) == Listed(Parts(v, write_damage_life_gain_cap), "or")
write_damage_life_gain_reference(a) ==
    CASE a.n = "DamageDealtCapped" ->
           T("damage dealt, but not more life than") \o write_damage_life_gain_caps(a.c[1])
      [] a.n = "DamageDealtToYouThisTurn" -> T("damage dealt to you this turn")
      [] a.n = "DamagePreventedThisWay"   -> T("damage prevented this way")
write_you_gain_life(a) == write_template_sentence("you gain", <<a.n>> \o T("life"))

\* The first number below the pair, in the order of the text.
RECURSIVE collect_unsigned_number_texts(_)
collect_unsigned_number_texts(p) ==
    IF p.rule = "unsigned_number" THEN <<Term(p)>>
    ELSE FlattenSeq([i \in 1..Len(p.kids) |-> collect_unsigned_number_texts(p.kids[i])])
if_you_do_gain_life_amount_from_pair(p) ==
    IF collect_unsigned_number_texts(p) = <<>> THEN Internal ELSE collect_unsigned_number_texts(p)[1]
you_gain_life_from_pair(p) == Node("YouGainLife", <<if_you_do_gain_life_amount_from_pair(p)>>)

RECURSIVE life_loss_player_from_pair(_)
life_loss_player_from_pair(p) ==
    CASE p.rule = "life_loss_player" -> life_loss_player_from_pair(only_inner(p))
      [] p.rule = "its_owner_life_loss_player" -> Leaf("ItsOwner")
      [] OTHER -> Internal
player_loses_life_parts_from_pair(p) ==
    LET rounding_of == KidsOf(p, "rounding")
        amount == IF KidsOf(p, "half_their_life_loss_amount") /= <<>>
                  THEN Node("HalfTheirLife", <<IF rounding_of = <<>> THEN Leaf("Down")
                                               ELSE rounding_from_pair(rounding_of[1])>>)
                  ELSE IF rounding_of /= <<>> THEN Internal
                  ELSE Node("Number", <<FirstOf(p, "unsigned_number", Term)>>)
    IN  <<life_loss_player_from_pair(Kid(p, 1)), amount>>
player_loses_life_from_pair(p) == Node("PlayerLosesLife", player_loses_life_parts_from_pair(p))
write_life_loss_player(a) == Written(a, [ItsOwner |-> "its owner"])
write_life_loss_amount(a) == IF a.n = "Number" THEN <<a.c[1].n>> ELSE T("half their")
write_life_loss_player_sentence(player, amount) ==
    write_life_loss_player(player) \o T("loses") \o write_life_loss_amount(amount) \o T("life")
    \o (IF amount.n = "HalfTheirLife" THEN T(", rounded") \o rounding_name(amount.c[1]) ELSE <<>>) \o T(".")

---------------------------------------------------------------------------
(* Mana and payments. *)
PayingPlayers == [You |-> "you", ThatPlayer |-> "that player"]
pay_mana_player_from_pair(p) == Spelled(p, PayingPlayers)
pay_mana_amount_from_pair(p) ==
    LET amount == IF p.rule = "pay_mana_amount" THEN only_inner(p) ELSE p
    IN  CASE amount.rule = "mana_cost" -> Node("Cost", <<mana_cost_from_pair(amount)>>)
          [] amount.rule = "any_amount_of_mana" -> Leaf("AnyAmountOfMana")
          [] OTHER -> Internal
player_may_pay_mana_statement_from_pair(p) ==
    Node("PlayerMayPayMana", <<pay_mana_player_from_pair(Kid(p, 1)), pay_mana_amount_from_pair(Kid(p, 2))>>)
write_pay_mana_player(a) == Written(a, PayingPlayers)
write_pay_mana_amount(a) ==
    IF a.n = "Cost" THEN write_mana_cost(a.c[1]) ELSE T("any amount of mana")

tap_all_permanents_then_mana_loss_from_pair(p) ==
    Node("TapAllPermanentsAndPlayerLosesUnspentMana",
         <<Leaf("TargetPlayer"), permanent_type_from_plural_pair(only_inner(p)), Flag(FALSE)>>)
parse_payment_failure_tap_mana_sources(p) ==
    << FirstOf(p, "permanent_type_plural", permanent_type_from_plural_pair),
       Flag(KidsOf(p, "with_mana_abilities") /= <<>>) >>
payment_failure_effect_from_pair(p) ==
    IF p.rule = "payment_failure_tap_mana_sources"
    THEN Node("TapAllPermanentsAndLoseUnspentMana", parse_payment_failure_tap_mana_sources(p)) ELSE Internal
player_payment_failure_from_pair(p) ==
    Node("PlayerPaymentFailure", <<payment_failure_effect_from_pair(only_inner(p))>>)
target_player_activates_mana_ability_of_each_permanent_they_control_from_pair(p) ==
    Of("TargetPlayerActivatesManaAbilityOfEachPermanentTheyControl", p)
write_payment_failure_effect(a) ==
    T("they tap all") \o permanent_type_plural_name(a.c[1])
    \o (IF a.c[2].n = "TRUE" THEN T("with mana abilities") ELSE <<>>)
    \o T("they control and lose all unspent mana")

add_mana_amount_from_pair(p) ==
    CASE p.rule = "mana_cost" -> Node("Cost", <<mana_cost_from_pair(p)>>)
      [] p.rule = "amount_of_mana_equal_to_sacrificed_permanent_mana_value" ->
           Of("EqualToSacrificedPermanentManaValue", p)
      [] OTHER -> Internal
add_mana_from_pair(p) == Node("AddMana", <<add_mana_amount_from_pair(only_inner(p))>>)
add_mana_of_any_one_color_statement_from_pair(p) ==
    IF only_inner(p).rule = "add_one_mana_of_any_color" THEN Leaf("AddOneManaOfAnyColor")
    ELSE Of("AddManaOfAnyOneColor", p)
write_add_mana_amount(a) ==
    CASE a.n = "Cost" -> write_mana_cost(a.c[1])
      [] a.n = "EqualToSacrificedPermanentManaValue" ->
           T("a amount of") \o write_mana_symbol(a.c[1]) \o T("equal to the sacrificed")
           \o permanent_type_name(a.c[2]) \o T("'s mana value")
write_add_mana_sentence(a) == write_template_sentence("add", write_add_mana_amount(a))

ActionTimings == [ AnyTimeYouCouldActivateAManaAbility |-> "any time you could activate a mana ability",
                   AnyTimeYouCouldCastAnInstant |-> "any time you could cast a instant" ]
action_timing_from_pair(p) == Spelled(p, ActionTimings)
optional_cost_from_pair(p) ==
    CASE p.rule = "pay_life_cost" -> Of("PayLife", p)
      [] p.rule = "pay_mana_cost" -> Of("PayMana", p)
      [] OTHER -> Internal
until_eot_you_may_pay_cost_at_timing_from_pair(p) ==
    LET costs == SelectSeq(p.kids, LAMBDA k : k.rule \in {"pay_life_cost", "pay_mana_cost"})
        timings == SelectSeq(p.kids, LAMBDA k : k.rule \notin {"pay_life_cost", "pay_mana_cost"})
    IN  Node("UntilEndOfTurnYouMayPayCostAtTiming",
             <<action_timing_from_pair(timings[1]), optional_cost_from_pair(costs[1])>>)
write_action_timing(a) == Written(a, ActionTimings)
write_optional_cost(a) ==
    T("pay") \o (IF a.n = "PayLife" THEN <<a.c[1].n>> \o T("life") ELSE write_mana_cost(a.c[1]))

---------------------------------------------------------------------------
(* The control of a player and of what that player may do. *)
ControlledPlayers == [ThatPlayer |-> "that player", ThePlayer |-> "the player"]
ControlConditions == [ChosenCardIsCastAsSpell |-> "the chosen card is cast as a spell"]
ReferencedCards   == [ThatCard |-> "that card"]
LimitContexts     == [WhileDoingSo |-> "while doing so"]
SourceLimits      == [LandsThatPlayerControls |-> "they're from lands that player controls"]
SpendingPurposes  == [ ActivateOtherManaAbilitiesOfLandsThePlayerControls |->
                           "activate other mana abilities of lands the player controls",
                       PlayThatCard |-> "play that card" ]
controller_ref_from_pair(p) == Spelled(p, [You |-> "you"])
controlled_player_from_pair(p) == Spelled(p, ControlledPlayers)
control_duration_from_pair(p) ==
    LET child == only_inner(p)
    IN  CASE child.rule = "source_resolution_duration" ->
               Node("SourceFinishesResolving", <<Text(only_inner(child))>>)
          [] child.rule = "spell_resolution_duration" -> Leaf("ThatSpellIsResolving")
          [] OTHER -> Internal
control_player_effect_from_pair(p) ==
    Node("ControlPlayer", << FirstOf(p, "controller_ref", controller_ref_from_pair),
                             FirstOf(p, "controlled_player_ref", controlled_player_from_pair),
                             FirstOf(p, "control_duration", control_duration_from_pair) >>)
control_player_statement_from_pair(p) == control_player_effect_from_pair(p)
control_player_condition_from_pair(p) == Spelled(p, ControlConditions)
conditional_control_player_effect_from_pair(p) ==
    Node("ConditionalControlPlayer",
         << FirstOf(p, "control_player_condition", control_player_condition_from_pair),
            FirstOf(p, "control_player_effect", control_player_effect_from_pair) >>)
referenced_card_from_pair(p) == Spelled(p, ReferencedCards)
referenced_card_play_instruction_from_pair(p) ==
    Node("PlayReferencedCard",
         << FirstOf(p, "controlled_player_ref", controlled_player_from_pair),
            FirstOf(p, "referenced_card_ref", referenced_card_from_pair),
            Flag(KidsOf(p, "if_able_clause") /= <<>>) >>)
activation_limit_context_from_pair(p) == Spelled(p, LimitContexts)
mana_ability_source_limit_from_pair(p) == Spelled(p, SourceLimits)
mana_spending_purpose_from_pair(p) == Spelled(p, SpendingPurposes)
produced_mana_spending_limit_from_pair(p) == Each(p, mana_spending_purpose_from_pair)
mana_ability_activation_limit_from_pair(p) ==
    Node("ManaAbilityActivationLimit",
         << FirstOf(p, "activation_limit_context", activation_limit_context_from_pair),
            FirstOf(p, "controlled_player_ref", controlled_player_from_pair),
            FirstOf(p, "mana_ability_source_limit", mana_ability_source_limit_from_pair),
            FirstOf(p, "produced_mana_spending_limit", produced_mana_spending_limit_from_pair) >>)
write_controlled_player(a) == Written(a, ControlledPlayers)
write_control_player_duration(a) ==
    IF a.n = "SourceFinishesResolving" THEN T("until") \o Words(a.c[1]) \o T("finishes resolving")
                                       ELSE T("while that spell is resolving")
write_control_player_effect(a) ==
    T("you control") \o write_controlled_player(a.c[2]) \o write_control_player_duration(a.c[3]) \o T(".")
write_control_player_condition(a) == Written(a, ControlConditions)
write_referenced_card(a) == Written(a, ReferencedCards)
write_activation_limit_context(a) == Written(a, LimitContexts)
write_mana_ability_source_limit(a) == Written(a, SourceLimits)
write_mana_spending_purpose(a) == Written(a, SpendingPurposes)
write_mana_spending_purposes(v) ==
    Joined(Parts(v, write_mana_spending_purpose), T("and/or to"), T("and/or to"))

---------------------------------------------------------------------------
(* What follows a choice, a payment or the flip of a coin. *)
face_down_creature_spell_dimensions_from_pair(p) == SubSeq(collect_unsigned_number_texts(p), 1, 2)
if_you_do_cast_that_card_face_down_without_paying_mana_cost_from_pair(p) ==
    Node("IfYouDoCastThatCardFaceDownWithoutPayingManaCost", face_down_creature_spell_dimensions_from_pair(p))
\* An IfYouDoEffect is kept as the statement Statement::if_you_do makes of it.
if_you_do_effect_from_inner_pair(p) ==
    CASE p.rule = "add_mana" -> Node("IfYouDoAddMana", <<add_mana_amount_from_pair(only_inner(p))>>)
      [] p.rule = "untap_source" -> Of("IfYouDoUntap", p)
      [] p.rule = "untap_referenced_permanent" -> Of("IfYouDoUntapReferencedPermanent", p)
      [] p.rule = "gain_life_effect" -> Node("IfYouDoGainLife", <<if_you_do_gain_life_amount_from_pair(p)>>)
      [] p.rule = "damage_prevention_effect_this_turn" ->
           Node("IfYouDoPreventDamageThisTurn", <<damage_prevention_effect_from_this_turn_pair(p)>>)
      [] p.rule = "cant_be_attacked_until_your_next_turn_except_by_creatures_with_keywords" ->
           Node("IfYouDoUntilYourNextTurnYouCantBeAttackedExceptByCreaturesWithKeywords",
                <<attack_restriction_keywords_from_pair(p)>>)
      [] p.rule = "may_cast_that_card_face_down_as_creature_spell_without_paying_mana_cost" ->
           if_you_do_cast_that_card_face_down_without_paying_mana_cost_from_pair(p)
      [] OTHER -> Internal
if_you_do_effect_from_pair(p) == if_you_do_effect_from_inner_pair(only_inner(p))
write_if_you_do(body) == T("if you do,") \o body
write_untap_sentence(a) == write_template_sentence("untap", write_source_object(a))
write_untap_referenced_permanent_sentence(a) == write_template_sentence("untap the", permanent_type_name(a))
write_if_you_do_effect(a) ==
    write_if_you_do(
        CASE a.n = "IfYouDoPreventDamageThisTurn" -> write_damage_prevention_effect(a.c[1])
          [] a.n = "IfYouDoAddMana" -> write_add_mana_sentence(a.c[1])
          [] a.n = "IfYouDoUntap"   -> write_untap_sentence(a.c[1])
          [] a.n = "IfYouDoUntapReferencedPermanent" -> write_untap_referenced_permanent_sentence(a.c[1])
          [] a.n = "IfYouDoGainLife" -> write_you_gain_life(a.c[1])
          [] a.n = "IfYouDoUntilYourNextTurnYouCantBeAttackedExceptByCreaturesWithKeywords" ->
               T("until your next turn, you can't be attacked except by creatures with")
               \o write_keyword_and_or_list(a.c[1]) \o T(".")
          [] a.n = "IfYouDoCastThatCardFaceDownWithoutPayingManaCost" ->
               T("you may cast that card face down as a") \o <<a.c[1].n>> \o T("/") \o <<a.c[2].n>>
               \o T("creature spell without paying its mana cost."))

if_you_would_event_you_may_skip_that_instead_from_pair(p) ==
    LET event == Kid(p, 1)
    IN  Node("IfYouWouldEventYouMaySkipThatInstead",
             << CASE event.rule = "draw_card_during_your_draw_step" -> Leaf("DrawCardDuringYourDrawStep")
                  [] event.rule = "begin_your_turn_while_source_is_status" ->
                       Of("BeginYourTurnWhileSourceIsStatus", event)
                  [] OTHER -> Internal >>)
\* The reference and the place of "instead" are those of the event, whatever was read.
write_skip_replacement_effect(a) ==
    IF a.n = "DrawCardDuringYourDrawStep"
    THEN T("if you would draw a card during your draw step, instead you may skip that draw.")
    ELSE T("if you would begin your turn while") \o write_source_object(a.c[1]) \o T("is")
         \o object_status_name(a.c[2]) \o T(", you may skip that turn instead.")

named_counter_count_on_it_from_pair(p) == counter_name_from_counter_pair(Kid(p, 1))
if_you_pay_source_deals_damage_from_pair(p) ==
    Node("IfYouPaySourceDealsDamage",
         << source_object_from_pair(Kid(p, 1)), named_counter_count_on_it_from_pair(Kid(p, 2)),
            Vec([i \in 1..(Len(p.kids) - 2) |-> damage_recipient_from_pair(Kid(p, i + 2))]) >>)
if_you_cant_source_deals_damage_to_you_from_pair(p) ==
    Node("IfYouCantSourceDealsDamageToYou",
         <<source_object_from_pair(Kid(p, 1)), damage_amount_from_pair(Kid(p, 2))>>)
CoinFlipResults == [Win |-> "win", Lose |-> "lose"]
coin_flip_result_from_pair(p) == IF p.rule = "coin_flip_result" THEN Spelled(p, CoinFlipResults) ELSE Internal
coin_flip_result_name(a) == Written(a, CoinFlipResults)

---------------------------------------------------------------------------
(* Keywords and labels. *)
keyword_from_pair(p) == Node("Keyword", <<keyword_from_inner_pair(only_inner(p))>>)
keyword_list_from_pair(p) == Node("KeywordList", <<Each(p, keyword_from_inner_pair)>>)
semicolon_keyword_list_from_pair(p) == Node("SemicolonKeywordList", <<Each(p, keyword_from_inner_pair)>>)
write_keyword_list(v) == Joined(Parts(v, write_keyword), T(","), T(","))
write_semicolon_keyword_list(v) == Joined(Parts(v, write_keyword), T(";"), T(";"))
then_for_each_attacking_creature_choose_label_blocking_restriction_from_pair(p) ==
    LET labels == SelectSeq(p.kids, LAMBDA k : k.rule \in {"quoted_label", "quoted_label_with_inner_period"})
    IN  Node("ForEachAttackingCreatureChooseLabelBlockingRestriction",
             << Vec([i \in 1..Len(labels) |-> label_from_pair(labels[i])]),
                keyword_from_inner_pair(Last(p.kids)) >>)
TokenColors == [Black |-> "black", Red |-> "red", Colorless |-> "colorless"]
token_color_name(a) == Written(a, TokenColors)
=============================================================================
