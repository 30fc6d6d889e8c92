----------------------------- MODULE MCCardText -----------------------------
(***************************************************************************)
(* The instance for TLC: cards of one line, which the rules of the         *)
(* statements derive with at most two departures from the default text of  *)
(* a rule; cards of two default lines, where the second is one that is     *)
(* printed on the line of the first; and two longer ones.                  *)
(***************************************************************************)
EXTENDS CardText
MCNames == {"Bob"}
MCCapitalised == {"CARDNAME"}
Rules == {Split(SentenceStatements[i]) : i \in 1..Len(SentenceStatements)}
         \cup {Split(PhraseStatements[i]) : i \in 1..Len(PhraseStatements)}
Derived(k) == UNION {Texts(rule, k) : rule \in Rules}
Continuing ==
    { destroy_referenced_creature_at_beginning_of_next_end_step, damage_event_statement, player_payment_failure,
      if_you_pay_source_deals_damage, you_gain_life_equal_damage, variable_cant_be_number,
      it_cant_be_regenerated, control_player_effect, referenced_card_play_instruction,
      mana_ability_activation_limit, conditional_control_player_effect, its_controller_gains_life,
      if_you_flip_result_effect, then_for_each_attacking_creature_choose_label_blocking_restriction,
      ignore_this_effect_for_each_creature_player_didnt_control_continuously }
MCCards ==
    {<<Texts(rule, 2)>> : rule \in Rules} \cup
    { <<Derived(0), UNION {Texts(Split(rule), 0) : rule \in Continuing}>>,
      <<{T("flying")}, {T("Bob deals 2 damage to any target.")}>>,
      <<{T("whenever you're dealt damage, it deals 2 damage to you and you gain 2 life.")}>> }
=============================================================================
