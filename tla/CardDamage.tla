----------------------------- MODULE CardDamage -----------------------------
(***************************************************************************)
(* Damage: who deals how much to whom, what prevents or redirects it, and  *)
(* the life that follows it.                                               *)
(***************************************************************************)
EXTENDS CardObjects

(* Recipients and amounts. *)
damage_kind == N("damage_kind", W("combat"))
damage_dealt_to_you_this_turn == N("damage_dealt_to_you_this_turn", W("damage dealt to you this turn"))
damage_amount_expression ==
    Opt(W("the")) & damage_dealt_to_you_this_turn | unsigned_number | variable_name
damage_amount == N("damage_amount", unsigned_number | variable_name)
any_target_prevention_recipient == N("any_target_prevention_recipient", W("any target"))
that_permanent_or_player_prevention_recipient ==
    N("that_permanent_or_player_prevention_recipient", W("that permanent or player"))
any_target_of_opponents_choice_damage_recipient ==
    N("any_target_of_opponents_choice_damage_recipient", W("any target of a opponent's choice"))
you_damage_recipient == N("you_damage_recipient", W("you"))
that_player_damage_recipient == N("that_player_damage_recipient", W("that player"))
that_permanent_damage_recipient == N("that_permanent_damage_recipient", W("that") & permanent_type)
source_object_damage_recipient == N("source_object_damage_recipient", source_object)
target_permanent_damage_recipient == N("target_permanent_damage_recipient", W("target") & permanent_type)
target_creature_you_control_damage_recipient ==
    N("target_creature_you_control_damage_recipient", W("target creature you control"))
each_creature_with_keyword == N("each_creature_with_keyword", W("each creature with") & keyword)
each_creature_without_keyword == N("each_creature_without_keyword", W("each creature without") & keyword)
each_creature_damage_recipient == N("each_creature_damage_recipient", W("each creature"))
each_player_damage_recipient == N("each_player_damage_recipient", W("each player"))
damage_recipient ==
    N("damage_recipient",
      target_creature_you_control_damage_recipient | target_permanent_damage_recipient
    | each_creature_with_keyword | each_creature_without_keyword | each_creature_damage_recipient
    | each_player_damage_recipient | that_player_damage_recipient)
prevention_recipient ==
      any_target_prevention_recipient | that_permanent_or_player_prevention_recipient
    | you_damage_recipient | source_object_damage_recipient

damage_kind_from_pair(p) == IF p.rule = "damage_kind" THEN Leaf("CombatDamage") ELSE Internal
damage_amount_from_pair(p) ==
    CASE p.rule = "damage_dealt_to_you_this_turn" -> Leaf("DamageDealtToYouThisTurn")
      [] p.rule = "variable_name"   -> Node("Variable", <<variable_from_str(p)>>)
      [] p.rule = "unsigned_number" -> Node("Number", <<numeral(p, "unsigned_number")>>)
      [] p.rule = "damage_amount"   ->
           IF p.text[1] \in {"X", "Y"} THEN Node("Variable", <<variable_from_str(p)>>)
                                       ELSE Node("Number", <<numeral(p, "damage_amount")>>)
      [] OTHER -> Internal
that_permanents_toughness_from_pair(p) ==
    LET object == only_inner(p)
    IN  CASE object.rule = "permanent_object" -> Leaf("ThatPermanentToughness")
          [] object.rule = "permanent_type" ->
               Node("ThatPermanentsToughness", <<permanent_type_from_pair(object)>>)
          [] OTHER -> Internal
prevention_recipient_from_pair(p) ==
    CASE p.rule = "any_target_prevention_recipient" -> Leaf("AnyTarget")
      [] p.rule = "that_permanent_or_player_prevention_recipient" -> Leaf("ThatPermanentOrPlayer")
      [] p.rule = "you_damage_recipient" -> Leaf("You")
      [] p.rule = "source_object_damage_recipient" ->
           Node("SourceObject", <<source_object_from_pair(only_inner(p))>>)
      [] p.rule = "banded_creatures_prevention_recipient" ->
           Node("CreaturesBandedWithSource", <<source_object_from_pair(only_inner(p))>>)
      [] OTHER -> Internal
damage_recipient_from_pair(p) ==
    LET r == IF p.rule = "damage_recipient" THEN only_inner(p) ELSE p
    IN  CASE r.rule = "any_target_prevention_recipient" -> Leaf("AnyTarget")
          [] r.rule = "any_target_of_opponents_choice_damage_recipient" -> Leaf("AnyTargetOfOpponentsChoice")
          [] r.rule = "you_damage_recipient" -> Leaf("You")
          [] r.rule = "target_permanent_damage_recipient" ->
               Node("TargetPermanent", <<permanent_type_from_pair(only_inner(r))>>)
          [] r.rule = "target_creature_you_control_damage_recipient" -> Leaf("TargetCreatureYouControl")
          [] r.rule = "each_creature_damage_recipient" -> Leaf("EachCreature")
          [] r.rule = "each_creature_with_keyword" ->
               Node("EachCreatureWithKeyword", <<keyword_from_inner_pair(only_inner(r))>>)
          [] r.rule = "each_creature_without_keyword" ->
               Node("EachCreatureWithoutKeyword", <<keyword_from_inner_pair(only_inner(r))>>)
          [] r.rule = "each_player_damage_recipient" -> Leaf("EachPlayer")
          [] r.rule = "that_player_damage_recipient" -> Leaf("ThatPlayer")
          [] OTHER -> Internal

write_damage_kind_prefix(a) == IF a.n = "CombatDamage" THEN T("combat") ELSE <<>>
write_damage_amount(a) ==
    CASE a.n \in {"Number", "Variable"} -> <<a.c[1].n>>
      [] a.n = "DamageDealtToYouThisTurn" -> T("damage dealt to you this turn")
      [] a.n = "ThatPermanentToughness"   -> T("that permanent's toughness")
      [] a.n = "ThatPermanentsToughness"  -> T("that") \o permanent_type_name(a.c[1]) \o T("'s toughness")
      [] a.n = "NumberOfBasicLandsTheyControl" ->
           T("the number of") \o basic_land_type_plural_name(a.c[1]) \o T("they control")
      [] a.n = "NumberOfBasicLandsPutIntoGraveyardThisWay" ->
           T("the number of") \o basic_land_type_plural_name(a.c[1]) \o T("put into a graveyard this way")
write_prevention_recipient(a) ==
    CASE a.n = "AnyTarget" -> T("any target")
      [] a.n = "ThatPermanentOrPlayer" -> T("that permanent or player")
      [] a.n = "You" -> T("you")
      [] a.n = "SourceObject" -> write_source_object(a.c[1])
      [] a.n = "CreaturesBandedWithSource" -> T("creatures banded with") \o write_source_object(a.c[1])
write_damage_recipient(a) ==
    CASE a.n = "AnyTarget" -> T("any target")
      [] a.n = "AnyTargetOfOpponentsChoice" -> T("any target of a opponent's choice")
      [] a.n = "You" -> T("you")
      [] a.n = "TargetPermanent" -> T("target") \o permanent_type_name(a.c[1])
      [] a.n = "TargetCreatureYouControl" -> T("target creature you control")
      [] a.n = "EachCreature" -> T("each creature")
      [] a.n = "EachCreatureWithKeyword" -> T("each creature with") \o write_keyword(a.c[1])
      [] a.n = "EachCreatureWithoutKeyword" -> T("each creature without") \o write_keyword(a.c[1])
      [] a.n = "EachPlayer" -> T("each player")
      [] a.n = "ThatPlayer" -> T("that player")
write_damage_recipients(v) == Joined(Parts(v, write_damage_recipient), T("and"), T("and"))

---------------------------------------------------------------------------
(* A source deals damage: a spell's sentence. *)
damage_event_equal_to_amount ==
    N("damage_event_equal_to_amount",
      Opt(W("the")) & ( that_permanents_toughness
                      | W("number of") & basic_land_type_plural & W("put into a graveyard this way")))
damage_event_amount == N("damage_event_amount", damage_amount_expression | damage_event_equal_to_amount)
damage_event_assignment_recipient ==
      any_target_prevention_recipient | any_target_of_opponents_choice_damage_recipient
    | you_damage_recipient | damage_recipient
damage_event_assignment ==
    N("damage_event_assignment", damage_event_amount & W("damage to") & damage_event_assignment_recipient)
damage_event_assignment_list ==
    N("damage_event_assignment_list", damage_event_assignment & Plus(W("and") & damage_event_assignment))
damage_event_recipients ==
    N("damage_event_recipients",
      N("damage_event_any_target_of_opponents_choice", W("to") & any_target_of_opponents_choice_damage_recipient)
    | N("damage_event_any_target", W("to any target"))
    | N("damage_event_divided_evenly_rounded_down_among_any_number_of_targets",
        W("divided evenly, rounded down, among any number of targets"))
    | N("damage_event_recipient_list",
        W("to") & damage_event_assignment_recipient & Star(W("and") & damage_event_assignment_recipient)))
damage_event_statement ==
    N("damage_event_statement",
      (source_object | proper_name) & W("deals")
      & ( damage_event_assignment_list
        | damage_event_amount & W("damage") & damage_event_recipients
        | W("damage equal to") & damage_event_amount & damage_event_recipients
        | W("damage") & damage_event_recipients & W("equal to") & damage_event_amount)
      & W("."))

\* The words a pair stands for, kept as they are.
Text(p)  == Vec([i \in 1..Len(p.text) |-> Leaf(p.text[i])])
Words(a) == [i \in 1..Len(a.c) |-> a.c[i].n]

damage_equal_to_amount_from_pair(p) ==
    LET inner == only_inner(p)
    IN  CASE inner.rule = "that_permanents_toughness" -> that_permanents_toughness_from_pair(inner)
          [] inner.rule = "basic_land_type_plural" ->
               Node("NumberOfBasicLandsPutIntoGraveyardThisWay", <<basic_land_type_from_plural_pair(inner)>>)
          [] OTHER -> Internal
damage_event_amount_from_pair(p) ==
    LET inner == only_inner(p)
    IN  IF inner.rule = "damage_event_equal_to_amount"
        THEN damage_equal_to_amount_from_pair(inner) ELSE damage_amount_from_pair(inner)
damage_event_recipients_from_pair(p) ==
    LET inner == only_inner(p)
    IN  CASE inner.rule = "damage_event_any_target" -> Leaf("AnyTarget")
          [] inner.rule = "damage_event_any_target_of_opponents_choice" -> Leaf("AnyTargetOfOpponentsChoice")
          [] inner.rule = "damage_event_divided_evenly_rounded_down_among_any_number_of_targets" ->
               Leaf("DividedEvenlyRoundedDownAmongAnyNumberOfTargets")
          [] inner.rule = "damage_event_recipient_list" ->
               Node("List", <<Each(inner, damage_recipient_from_pair)>>)
          [] OTHER -> Internal
damage_event_assignments_from_pair(p) ==
    Vec([i \in 1..Len(p.kids) |->
           Node("DamageAssignment", <<damage_event_amount_from_pair(Kid(p.kids[i], 1)),
                                      damage_recipient_from_pair(Kid(p.kids[i], 2))>>)])
named_damage_event_from_pair(p) ==
    LET next == Kid(p, 2)
    IN  CASE next.rule = "damage_event_assignment_list" ->
               LET assignments == damage_event_assignments_from_pair(next)
               IN  Node("DamageEvent", <<Text(Kid(p, 1)), assignments.c[1].c[1],
                                         Node("Assignments", <<assignments>>)>>)
          [] next.rule = "damage_event_recipients" ->
               Node("DamageEvent", <<Text(Kid(p, 1)), damage_event_amount_from_pair(Kid(p, 3)),
                                     damage_event_recipients_from_pair(next)>>)
          [] OTHER ->
               Node("DamageEvent", <<Text(Kid(p, 1)), damage_event_amount_from_pair(next),
                                     damage_event_recipients_from_pair(Kid(p, 3))>>)
damage_event_statement_from_pair(p) == Node("NamedSourceDealsDamage", <<named_damage_event_from_pair(p)>>)

\* Neighbours with the same amount are printed as one assignment; each is an
\* amount with a printed recipient.
RECURSIVE Assigned(_)
Assigned(s) ==
    LET others == {i \in 2..Len(s) : s[i][1] /= s[1][1]}
        last == IF others = {} THEN Len(s) ELSE Min(others) - 1
    IN  write_damage_amount(s[1][1]) \o T("damage to")
        \o Joined([i \in 1..last |-> s[i][2]], T("and"), T("and"))
        \o (IF last = Len(s) THEN <<>> ELSE T("and") \o Assigned(SubSeq(s, last + 1, Len(s))))
write_damage_assignments(v) ==
    Assigned([i \in 1..Len(v.c) |-> <<v.c[i].c[1], write_damage_recipient(v.c[i].c[2])>>])
write_damage_event_recipients(a) ==
    CASE a.n = "AnyTarget" -> T("to any target")
      [] a.n = "AnyTargetOfOpponentsChoice" -> T("to any target of a opponent's choice")
      [] a.n = "DividedEvenlyRoundedDownAmongAnyNumberOfTargets" ->
           T("divided evenly, rounded down, among any number of targets")
      [] a.n = "List" -> T("to") \o write_damage_recipients(a.c[1])
write_named_damage_event(a) ==
    LET amount == a.c[2]
        recipients == a.c[3]
    IN  Words(a.c[1]) \o T("deals")
        \o ( CASE recipients.n = "Assignments" -> write_damage_assignments(recipients.c[1])
               [] recipients.n /= "Assignments" /\ amount.n \notin {"Number", "Variable"} ->
                    T("damage") \o write_damage_event_recipients(recipients) \o T("equal to")
                    \o (IF amount.n = "DamageDealtToYouThisTurn" THEN T("the") ELSE <<>>)
                    \o write_damage_amount(amount)
               [] OTHER -> write_damage_amount(amount) \o T("damage")
                           \o write_damage_event_recipients(recipients))
        \o T(".")

---------------------------------------------------------------------------
(* Prevention. *)
damage_prevention_amount == damage_amount_expression
damage_prevention_amount_axis ==
    N("damage_prevention_amount_axis",
      N("damage_prevention_all_amount", W("all"))
    | N("damage_prevention_next_amount", W("the next") & damage_prevention_amount)
    | N("damage_prevention_of_amount", damage_prevention_amount & W("of")))
damage_prevention_of_that_damage == N("damage_prevention_of_that_damage", W("that damage"))
damage_prevention_event ==
    N("damage_prevention_event",
      N("damage_prevention_that_would_be_dealt", Opt(damage_kind) & W("damage that would be dealt"))
    | damage_prevention_of_that_damage)
damage_prevention_replacement_event ==
    W("prevent") & (damage_prevention_amount_axis & damage_prevention_event | damage_prevention_of_that_damage)
damage_prevention_replacement_effect ==
    damage_prevention_replacement_event
    & Opt(N("damage_prevention_recipient_clause", W("to") & prevention_recipient))
damage_prevention_duration == W("this turn.")
damage_prevention_effect_this_turn ==
    N("damage_prevention_effect_this_turn", damage_prevention_replacement_effect & damage_prevention_duration)
damage_prevention_effect_sentence ==
    N("damage_prevention_effect_sentence",
      damage_prevention_replacement_effect
      & Opt(N("damage_prevention_duration_fragment", W("this turn")))
      & Opt(N("damage_prevention_variable_definition", W(",") & where_clause)) & W("."))
damage_prevention_effect == N("damage_prevention_effect", damage_prevention_effect_sentence)

damage_prevention_next_amount_from_pair(p) == damage_amount_from_pair(only_inner(p))
damage_prevention_amount_axis_from_pair(p) ==
    LET inner == only_inner(p)
    IN  CASE inner.rule = "damage_prevention_all_amount" -> Leaf("All")
          [] inner.rule = "damage_prevention_next_amount" ->
               Node("Next", <<damage_prevention_next_amount_from_pair(inner)>>)
          [] inner.rule = "damage_prevention_of_amount" ->
               Node("Amount", <<damage_prevention_next_amount_from_pair(inner)>>)
          [] OTHER -> Internal
damage_prevention_event_from_pair(p) ==
    CASE only_inner(p).rule = "damage_prevention_that_would_be_dealt" -> Leaf("ThatWouldBeDealt")
      [] only_inner(p).rule = "damage_prevention_of_that_damage"      -> Leaf("OfThatDamage")
      [] OTHER -> Internal
\* <<amount, event, kind, recipient, duration>>
damage_prevention_effect_from_this_turn_pair_with_recipient(p, rule, From(_)) ==
    LET that == KidsOf(p, "damage_prevention_of_that_damage") /= <<>>
        event == FirstOf(p, "damage_prevention_event", damage_prevention_event_from_pair)
        Inner(k) == From(only_inner(k))
        KindOf(k) == FirstOf(only_inner(k), "damage_kind", damage_kind_from_pair)
    IN  Node("DamagePreventionEffect",
             << IF that THEN Leaf("ThatDamage")
                ELSE FirstOf(p, "damage_prevention_amount_axis", damage_prevention_amount_axis_from_pair),
                IF that THEN Leaf("OfThatDamage") ELSE event,
                FirstOf(p, "damage_prevention_event", KindOf),
                FirstOf(p, rule, Inner),
                Leaf("ThisTurn") >>)
damage_prevention_effect_from_this_turn_pair(p) ==
    damage_prevention_effect_from_this_turn_pair_with_recipient(
        p, "damage_prevention_recipient_clause", prevention_recipient_from_pair)
damage_prevention_effect_sentence_from_pair(p) ==
    LET effect == damage_prevention_effect_from_this_turn_pair(p)
        duration == IF KidsOf(p, "damage_prevention_duration_fragment") = <<>> THEN None ELSE Leaf("ThisTurn")
        Definitions(k) == where_clause_from_pair(only_inner(k))
        where == KidsOf(p, "damage_prevention_variable_definition")
    IN  Node("PreventDamageThisTurn",
             << [effect EXCEPT !.c[5] = duration],
                IF where = <<>> THEN Vec(<<>>) ELSE Definitions(where[1]) >>)
damage_prevention_effect_statement_from_pair(p) ==
    CASE only_inner(p).rule = "damage_prevention_effect_sentence" ->
           damage_prevention_effect_sentence_from_pair(only_inner(p))
      [] OTHER -> Internal

write_damage_prevention_amount_axis(a) ==
    CASE a.n = "ThatDamage" -> <<>>
      [] a.n = "All"        -> T("all")
      [] a.n = "Next"       -> T("the next") \o write_damage_amount(a.c[1])
      [] a.n = "Amount"     -> write_damage_amount(a.c[1]) \o T("of")
write_damage_prevention_replacement_event(amount, event, kind) ==
    T("prevent") \o write_damage_prevention_amount_axis(amount)
    \o (IF event.n = "OfThatDamage" THEN T("that damage")
        ELSE write_damage_kind_prefix(kind) \o T("damage that would be dealt"))
write_damage_prevention_effect_without_period(a, Write(_)) ==
    write_damage_prevention_replacement_event(a.c[1], a.c[2], a.c[3])
    \o (IF a.c[4] = None THEN <<>> ELSE T("to") \o Write(a.c[4]))
    \o (IF a.c[5] = None THEN <<>> ELSE T("this turn"))
write_damage_prevention_effect(a) ==
    write_damage_prevention_effect_without_period(a, write_prevention_recipient) \o T(".")
write_damage_prevention_effect_statement(a) ==
    write_damage_prevention_effect_without_period(a.c[1], write_prevention_recipient)
    \o (IF a.c[2].c = <<>> THEN <<>> ELSE T(", where") \o write_variable_definitions(a.c[2]))
    \o T(".")

---------------------------------------------------------------------------
(* Damage of a triggered ability. *)
it_damage_source == N("it_damage_source", W("it"))
trigger_damage_recipient ==
      that_permanents_controller | the_permanents_controller | that_player_damage_recipient
    | you_damage_recipient | that_permanent_damage_recipient
trigger_damage_amount == N("trigger_damage_amount", damage_amount_expression)
trigger_damage_equal_to_amount ==
    N("trigger_damage_equal_to_amount",
      W("equal to") & ( that_permanents_toughness
                      | W("the number of") & basic_land_type_plural & W("they control")))
trigger_damage_event ==
    N("trigger_damage_event",
      (it_damage_source | source_object) & W("deals")
      & ( trigger_damage_amount & W("damage to") & trigger_damage_recipient
        | W("damage") & trigger_damage_equal_to_amount & W("to") & trigger_damage_recipient
        | W("damage to") & trigger_damage_recipient & trigger_damage_equal_to_amount))
source_deals_damage ==
    N("source_deals_damage",
      trigger_damage_event
      & Opt(N("trigger_damage_condition", W("unless you pay") & mana_cost))
      & Opt(N("trigger_damage_variable_definition", W(",") & where_clause))
      & (W(".") | Ahead(W("and"))))

trigger_damage_amount_from_pair(p) == damage_amount_from_pair(only_inner(p))
trigger_damage_equal_to_amount_from_pair(p) ==
    LET inner == only_inner(p)
    IN  CASE inner.rule = "that_permanents_toughness" -> that_permanents_toughness_from_pair(inner)
          [] inner.rule = "basic_land_type_plural" ->
               Node("NumberOfBasicLandsTheyControl", <<basic_land_type_from_plural_pair(inner)>>)
          [] OTHER -> Internal
trigger_damage_recipient_from_pair(p) ==
    CASE p.rule = "that_permanents_controller" ->
           Node("ThatPermanentController", <<that_permanents_controller_from_pair(p)>>)
      [] p.rule = "the_permanents_controller" ->
           Node("ThatPermanentController", <<the_permanents_controller_from_pair(p)>>)
      [] p.rule = "that_player_damage_recipient" -> Leaf("ThatPlayer")
      [] p.rule = "you_damage_recipient" -> Leaf("You")
      [] p.rule = "that_permanent_damage_recipient" ->
           Node("ThatPermanent", <<permanent_type_from_pair(only_inner(p))>>)
      [] OTHER -> Internal
trigger_damage_event_from_pair(p) ==
    LET amounts == SelectSeq(p.kids, LAMBDA k : k.rule \in {"trigger_damage_amount", "trigger_damage_equal_to_amount"})
        amount == amounts[1]
        source == Kid(p, 1)
        recipient == Head(SelectSeq(p.kids, LAMBDA k : k \notin {source, amount}))
    IN  Node("DamageEvent",
             << IF source.rule = "it_damage_source" THEN Leaf("It")
                ELSE Node("Source", <<source_object_from_pair(source)>>),
                IF amount.rule = "trigger_damage_amount" THEN trigger_damage_amount_from_pair(amount)
                ELSE trigger_damage_equal_to_amount_from_pair(amount),
                trigger_damage_recipient_from_pair(recipient) >>)
\* The combinations of amount and recipient that are refused.
validate_trigger_damage_amount_recipient(amount, recipient) ==
    CASE amount.n = "ThatPermanentsToughness" ->
           recipient.n = "ThatPermanentController" /\ recipient.c[1] = amount.c[1]
      [] amount.n = "NumberOfBasicLandsTheyControl" -> recipient.n = "ThatPlayer"
      [] OTHER -> amount.n \notin {"ThatPermanentToughness", "NumberOfBasicLandsPutIntoGraveyardThisWay"}
trigger_damage_condition_from_pair(p) ==
    Node("UnlessYouPay", <<mana_cost_from_pair(only_inner(p))>>)
source_deals_damage_from_pair(p) ==
    LET event == FirstOf(p, "trigger_damage_event", trigger_damage_event_from_pair)
        Definitions(k) == where_clause_from_pair(only_inner(k))
        definitions == FirstOf(p, "trigger_damage_variable_definition", Definitions)
        amount == event.c[2]
        defined == IF definitions = None THEN {} ELSE {definitions.c[i].c[1] : i \in 1..Len(definitions.c)}
        accepted == /\ validate_trigger_damage_amount_recipient(amount, event.c[3])
                    /\ IF amount.n = "Variable" THEN amount.c[1] \in defined ELSE definitions = None
    IN  IF ~accepted THEN Internal
        ELSE Node("SourceDealsDamage",
                  << event, FirstOf(p, "trigger_damage_condition", trigger_damage_condition_from_pair),
                     IF definitions = None THEN Vec(<<>>) ELSE definitions >>)

write_trigger_damage_recipient(a) ==
    CASE a.n = "You"           -> T("you")
      [] a.n = "ThatPlayer"    -> T("that player")
      [] a.n = "ThatPermanent" -> T("that") \o permanent_type_name(a.c[1])
      [] a.n = "ThatPermanentController" -> T("that") \o permanent_type_name(a.c[1]) \o T("'s controller")
write_triggered_damage(a, terminal) ==
    LET source == a.c[1].c[1]
        amount == a.c[1].c[2]
        to == T("to") \o write_trigger_damage_recipient(a.c[1].c[3])
    IN  (IF source.n = "It" THEN T("it") ELSE write_source_object(source.c[1])) \o T("deals")
        \o (CASE amount.n \in {"Number", "Variable"} -> write_damage_amount(amount) \o T("damage") \o to
              [] amount.n \in {"ThatPermanentToughness", "ThatPermanentsToughness"} ->
                   T("damage equal to") \o write_damage_amount(amount) \o to
              [] OTHER -> T("damage") \o to \o T("equal to") \o write_damage_amount(amount))
        \o (IF a.c[2] = None THEN <<>> ELSE T("unless you pay") \o write_mana_cost(a.c[2].c[1]))
        \o (IF amount.n = "Variable" THEN T(", where") \o write_variable_definitions(a.c[3]) \o T(".")
            ELSE IF terminal THEN T(".") ELSE <<>>)

---------------------------------------------------------------------------
(* Damage of an activated ability; the next time damage would be dealt. *)
activated_direct_damage_recipient ==
      any_target_of_opponents_choice_damage_recipient | you_damage_recipient
    | any_target_prevention_recipient | target_permanent_damage_recipient
    | each_creature_damage_recipient | each_player_damage_recipient
\* What !damage_assignment looks ahead for begins with an amount.
damage_assignment ==
    LET assigned == damage_event_amount & W("damage to") & activated_direct_damage_recipient
    IN  N("damage_assignment",
          damage_event_amount & W("damage to")
          & N("activated_damage_recipient_list",
              activated_direct_damage_recipient
              & Star(W("and") & Unless(assigned) & activated_direct_damage_recipient)))
activated_direct_damage_effect ==
    N("activated_direct_damage_effect",
      source_object & W("deals") & damage_assignment & Star(W("and") & damage_assignment) & W("."))
activated_damage_source ==
      N("colored_damage_source", article & color_word & W("source"))
    | N("unblocked_creature_damage_source", article & W("unblocked creature"))
    | N("chosen_damage_source", article & W("source"))
activated_damage_recipient ==
    you_damage_recipient | target_permanent_damage_recipient | source_object_damage_recipient
activated_damage_event_result ==
      N("prevent_that_damage", W("prevent that damage"))
    | N("prevent_all_but_that_damage", W("prevent all but") & unsigned_number & W("of that damage"))
    | N("redirect_that_damage_to_you",
        W("that source deals that damage to you instead") | W("that damage is dealt to you instead"))
next_damage_event_effect ==
    N("next_damage_event_effect",
      W("the next time") & activated_damage_source & W("of your choice would deal") & Opt(damage_kind)
      & W("damage to") & activated_damage_recipient & W("this turn,") & activated_damage_event_result & W("."))
next_damage_redirection_effect ==
    N("next_damage_redirection_effect",
      W("the next") & damage_prevention_amount & Opt(damage_kind) & W("damage that would be dealt to")
      & activated_damage_recipient & W("this turn is dealt to")
      & N("its_owner_damage_destination", W("its owner")) & W("instead."))
activated_damage_prevention_effect ==
    N("activated_damage_prevention_effect",
      damage_prevention_replacement_event
      & N("activated_damage_prevention_recipient_clause",
          W("to") & (you_damage_recipient | any_target_prevention_recipient | source_object_damage_recipient))
      & damage_prevention_duration)
activated_damage_effect ==
      activated_direct_damage_effect | next_damage_event_effect
    | next_damage_redirection_effect | activated_damage_prevention_effect

activated_damage_source_from_pair(p) ==
    CASE p.rule = "colored_damage_source" -> Node("ColoredSource", <<color_from_pair(only_inner(p))>>)
      [] p.rule = "unblocked_creature_damage_source" -> Leaf("UnblockedCreature")
      [] p.rule = "chosen_damage_source" -> Leaf("Source")
      [] OTHER -> Internal
activated_damage_recipient_from_pair(p) ==
    CASE p.rule = "you_damage_recipient" -> Leaf("You")
      [] p.rule = "any_target_prevention_recipient" -> Leaf("AnyTarget")
      [] p.rule = "any_target_of_opponents_choice_damage_recipient" -> Leaf("AnyTargetOfOpponentsChoice")
      [] p.rule = "each_creature_damage_recipient" -> Leaf("EachCreature")
      [] p.rule = "each_player_damage_recipient" -> Leaf("EachPlayer")
      [] p.rule = "source_object_damage_recipient" -> Node("Source", <<source_object_from_pair(only_inner(p))>>)
      [] p.rule = "target_permanent_damage_recipient" ->
           Node("TargetPermanent", <<permanent_type_from_pair(only_inner(p))>>)
      [] OTHER -> Internal
activated_damage_assignments_from_pair(p) ==
    Node("DamageAssignmentGroup",
         <<damage_event_amount_from_pair(Kid(p, 1)), Each(Kid(p, 2), activated_damage_recipient_from_pair)>>)
activated_direct_damage_effect_from_pair(p) ==
    Node("SourceDealsDamageAssignmentGroups",
         << source_object_from_pair(Kid(p, 1)),
            Vec([i \in 1..(Len(p.kids) - 1) |-> activated_damage_assignments_from_pair(p.kids[i + 1])]) >>)
activated_damage_event_effect_from_pair(p) ==
    CASE p.rule = "prevent_that_damage" -> Leaf("PreventThatDamage")
      [] p.rule = "prevent_all_but_that_damage" ->
           Node("PreventAllBut", <<numeral(only_inner(p), "unsigned_number")>>)
      [] p.rule = "redirect_that_damage_to_you" -> Leaf("RedirectToYou")
      [] OTHER -> Internal
next_damage_event_effect_from_pair(p) ==
    LET rest == SelectSeq(p.kids, LAMBDA k : k.rule /= "damage_kind")
        kind == IF KidsOf(p, "damage_kind") = <<>> THEN Leaf("Damage") ELSE Leaf("CombatDamage")
    IN  Node("NextDamageEvent",
             << Node("DamageEventPattern",
                     <<activated_damage_source_from_pair(rest[1]), kind, activated_damage_recipient_from_pair(rest[2])>>),
                activated_damage_event_effect_from_pair(rest[3]) >>)
\* "damage dealt to you this turn" is an amount the rule has and the
\* conversion does not.
RedirectionRecipients ==
    {"you_damage_recipient", "target_permanent_damage_recipient", "source_object_damage_recipient"}
next_damage_redirection_effect_from_pair(p) ==
    LET rest == SelectSeq(p.kids, LAMBDA k : k.rule /= "damage_kind")
    IN  IF \/ rest[1].rule \notin {"unsigned_number", "variable_name"}
           \/ rest[2].rule \notin RedirectionRecipients THEN Internal
        ELSE Node("RedirectNextDamageThisTurn",
                  << damage_amount_from_pair(rest[1]), FirstOf(p, "damage_kind", damage_kind_from_pair),
                     activated_damage_recipient_from_pair(rest[2]), Leaf("ItsOwner") >>)
activated_damage_prevention_effect_from_pair(p) ==
    damage_prevention_effect_from_this_turn_pair_with_recipient(
        p, "activated_damage_prevention_recipient_clause", activated_damage_recipient_from_pair)
activated_damage_effect_from_pair(p) ==
    CASE p.rule = "activated_direct_damage_effect" -> activated_direct_damage_effect_from_pair(p)
      [] p.rule = "next_damage_event_effect" -> next_damage_event_effect_from_pair(p)
      [] p.rule = "next_damage_redirection_effect" -> next_damage_redirection_effect_from_pair(p)
      [] p.rule = "activated_damage_prevention_effect" ->
           Node("PreventDamageThisTurn", <<activated_damage_prevention_effect_from_pair(p)>>)
      [] OTHER -> Internal

write_activated_damage_source(a) ==
    CASE a.n = "ColoredSource"     -> T("a") \o color_name(a.c[1]) \o T("source")
      [] a.n = "UnblockedCreature" -> T("a unblocked creature")
      [] a.n = "Source"            -> T("a source")
write_activated_damage_recipient(a) ==
    CASE a.n = "You" -> T("you")
      [] a.n = "AnyTarget" -> T("any target")
      [] a.n = "AnyTargetOfOpponentsChoice" -> T("any target of a opponent's choice")
      [] a.n = "EachCreature" -> T("each creature")
      [] a.n = "EachPlayer" -> T("each player")
      [] a.n = "TargetPermanent" -> T("target") \o permanent_type_name(a.c[1])
      [] a.n = "Source" -> write_source_object(a.c[1])
write_activated_damage_event_effect(a) ==
    CASE a.n = "PreventThatDamage" -> T("prevent that damage")
      [] a.n = "PreventAllBut"     -> T("prevent all but") \o <<a.c[1].n>> \o T("of that damage")
      [] a.n = "RedirectToYou"     -> T("that source deals that damage to you instead")
write_activated_damage_assignment_groups(v) ==
    LET Group(a) == write_damage_amount(a.c[1]) \o T("damage to")
                    \o Joined(Parts(a.c[2], write_activated_damage_recipient), T("and"), T("and"))
    IN  Joined(Parts(v, Group), T("and"), T("and"))
write_activated_damage_prevention_effect(a) ==
    write_damage_prevention_effect_without_period(a, write_activated_damage_recipient) \o T(".")
write_activated_damage_effect(a) ==
    CASE a.n = "SourceDealsDamageAssignmentGroups" ->
           write_source_object(a.c[1]) \o T("deals")
           \o write_activated_damage_assignment_groups(a.c[2]) \o T(".")
      [] a.n = "NextDamageEvent" ->
           T("the next time") \o write_activated_damage_source(a.c[1].c[1]) \o T("of your choice would deal")
           \o write_damage_kind_prefix(a.c[1].c[2]) \o T("damage to")
           \o write_activated_damage_recipient(a.c[1].c[3]) \o T("this turn,")
           \o write_activated_damage_event_effect(a.c[2]) \o T(".")
      [] a.n = "RedirectNextDamageThisTurn" ->
           T("the next") \o write_damage_amount(a.c[1]) \o write_damage_kind_prefix(a.c[2])
           \o T("damage that would be dealt to") \o write_activated_damage_recipient(a.c[3])
           \o T("this turn is dealt to its owner instead.")
      [] a.n = "PreventDamageThisTurn" -> write_activated_damage_prevention_effect(a.c[1])
=============================================================================
