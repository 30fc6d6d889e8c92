--------------------------- MODULE CardConditions ---------------------------
(***************************************************************************)
(* What holds while something else does: conditions and the continuous     *)
(* effects they condition.                                                 *)
(***************************************************************************)
EXTENDS CardDamage

you_control_basic_land == N("you_control_basic_land", W("you control") & article & basic_land_type)
you_control_no_basic_lands == N("you_control_no_basic_lands", W("you control no") & basic_land_type_plural)
enchanted_isnt ==
    N("enchanted_isnt", W("enchanted") & permanent_type & W("isn't") & article & permanent_type)
source_is_object_status == N("source_is_object_status", source_object & W("is") & object_status)
source_isnt_attacking == N("source_isnt_attacking", proper_name & W("isn't attacking"))
source_is_attacking == N("source_is_attacking", proper_name & W("is attacking"))
condition ==
      you_control_basic_land | you_control_no_basic_lands | source_is_object_status
    | source_isnt_attacking | source_is_attacking | enchanted_isnt

condition_from_pair(p) ==
    CASE p.rule = "you_control_basic_land" ->
           Node("YouControlBasicLand", <<basic_land_type_from_pair(only_inner(p))>>)
      [] p.rule = "you_control_no_basic_lands" ->
           Node("YouControlNoBasicLands", <<basic_land_type_from_plural_pair(only_inner(p))>>)
      [] p.rule = "enchanted_isnt" ->
           Node("EnchantedIsNot", <<permanent_type_from_pair(Kid(p, 1)), permanent_type_from_pair(Kid(p, 2))>>)
      [] p.rule \in {"source_isnt_attacking", "source_is_attacking"} ->
           Node("SourceIsAttacking", <<Text(only_inner(p)), Leaf(p.rule)>>)
      [] p.rule = "source_is_object_status" ->
           Node("SourceIsObjectStatus",
                <<source_object_from_pair(Kid(p, 1)), object_status_from_pair(Kid(p, 2))>>)
      [] OTHER -> Internal
is_condition_rule(rule) ==
    rule \in {"you_control_basic_land", "you_control_no_basic_lands", "enchanted_isnt",
              "source_is_object_status", "source_isnt_attacking", "source_is_attacking"}
write_condition(a) ==
    CASE a.n = "YouControlBasicLand"    -> T("you control a") \o basic_land_type_name(a.c[1])
      [] a.n = "YouControlNoBasicLands" -> T("you control no") \o basic_land_type_plural_name(a.c[1])
      [] a.n = "EnchantedIsNot" ->
           T("enchanted") \o permanent_type_name(a.c[1]) \o T("isn't a") \o permanent_type_name(a.c[2])
      [] a.n = "SourceIsAttacking" ->
           Words(a.c[1])
           \o (IF a.c[2].n = "source_is_attacking" THEN T("is attacking") ELSE T("isn't attacking"))
      [] a.n = "SourceIsObjectStatus" ->
           write_source_object(a.c[1]) \o T("is") \o object_status_name(a.c[2])

---------------------------------------------------------------------------
source_gets == N("source_gets", source_object & W("gets") & pt_modifier)
banded_creatures_prevention_recipient ==
    N("banded_creatures_prevention_recipient", W("creatures banded with") & (W("it") | source_object))
static_damage_prevention_recipient == source_object_damage_recipient | banded_creatures_prevention_recipient
static_damage_prevention_effect ==
    N("static_damage_prevention_effect",
      W("prevent") & damage_prevention_amount_axis & Opt(damage_kind) & W("damage") & land_subtype_plural
      & W("would deal to") & static_damage_prevention_recipient
      & Star(W("and to") & static_damage_prevention_recipient))
static_damage_source ==
      N("generic_damage_source", article & W("source"))
    | N("unblocked_creatures_damage_source", W("unblocked creatures"))
static_damage_redirection_destination ==
      N("that_source_damage_redirection_destination", W("that source"))
    | N("source_object_damage_redirection_destination", source_object)
damage_that_would_be_dealt_to_you_by_source_is_dealt_to_source_instead ==
    N("damage_that_would_be_dealt_to_you_by_source_is_dealt_to_source_instead",
      W("all damage that would be dealt to you by") & static_damage_source
      & W("is dealt to") & static_damage_redirection_destination & W("instead"))
becomes_pt_from_mv ==
    N("becomes_pt_from_mv",
      W("it's") & article & permanent_type & Star(permanent_type)
      & W("with power and toughness each equal to its mana value"))
land_count_controller == N("land_count_controller", W("you control") | W("defending player controls"))
source_pt_equal_to_basic_lands_controlled ==
    N("source_pt_equal_to_basic_lands_controlled",
      W("its power and toughness are each equal to the number of") & basic_land_type_plural & land_count_controller)
static_untap_restriction_during_untap_steps ==
    N("static_untap_restriction_during_untap_steps",
      W("creatures with power") & unsigned_number
        & W("or greater don't untap during their controllers' untap steps")
    | W("players can't untap more than") & number_word & permanent_type & W("during their untap steps")
    | W("players skip their untap steps"))
continuous_effect ==
      source_pt_equal_to_basic_lands_controlled | becomes_pt_from_mv
    | static_untap_restriction_during_untap_steps | source_gets | static_damage_prevention_effect
    | damage_that_would_be_dealt_to_you_by_source_is_dealt_to_source_instead

\* "creatures banded with it" means the source object named last before it.
static_damage_prevention_effect_from_pair(p) ==
    LET named == SelectSeq(p.kids, LAMBDA k : k.rule \in {"source_object_damage_recipient",
                                                          "banded_creatures_prevention_recipient"})
        Recipient(i) ==
            IF named[i].rule = "source_object_damage_recipient" \/ named[i].kids /= <<>>
            THEN prevention_recipient_from_pair(named[i])
            ELSE LET before == {j \in 1..(i - 1) : named[j].rule = "source_object_damage_recipient"}
                 IN  IF before = {} THEN Internal
                     ELSE Node("CreaturesBandedWithSource",
                               prevention_recipient_from_pair(named[Max(before)]).c)
    IN  Node("StaticDamagePreventionEffect",
             << FirstOf(p, "damage_prevention_amount_axis", damage_prevention_amount_axis_from_pair),
                FirstOf(p, "damage_kind", damage_kind_from_pair),
                FirstOf(p, "land_subtype_plural", land_subtype_from_plural_pair),
                Vec([i \in 1..Len(named) |-> Recipient(i)]) >>)
static_untap_restriction_from_pair(p) ==
    LET first == only_inner(p)
    IN  CASE p.kids = <<>> -> Leaf("PlayersSkipTheirUntapSteps")
          [] first.rule = "unsigned_number" ->
               Node("CreaturesWithPowerOrGreater", <<numeral(first, "unsigned_number")>>)
          [] first.rule = "number_word" ->
               Node("PlayersCantUntapMoreThanPermanents",
                    <<number_word_to_u32(first), permanent_type_from_pair(Kid(p, 2))>>)
          [] OTHER -> Internal
static_damage_source_from_pair(p) ==
    CASE p.rule = "generic_damage_source" -> Leaf("Source")
      [] p.rule = "unblocked_creatures_damage_source" -> Leaf("UnblockedCreatures")
      [] OTHER -> Internal
static_damage_redirection_destination_from_pair(p) ==
    CASE p.rule = "that_source_damage_redirection_destination" -> Leaf("ThatSource")
      [] p.rule = "source_object_damage_redirection_destination" ->
           Node("SourceObject", <<source_object_from_pair(only_inner(p))>>)
      [] OTHER -> Internal
land_count_controller_from_pair(p) ==
    CASE p.rule /= "land_count_controller" -> Internal
      [] Says(p, "you control") -> Leaf("You")
      [] Says(p, "defending player controls") -> Leaf("DefendingPlayer")
      [] OTHER -> Internal
continuous_effect_from_pair(p) ==
    CASE p.rule = "source_gets" ->
           Node("SourceGets", <<source_object_from_pair(Kid(p, 1)), pt_modifier_from_pair(Kid(p, 2))>>)
      [] p.rule = "static_damage_prevention_effect" ->
           Node("PreventDamage", <<static_damage_prevention_effect_from_pair(p)>>)
      [] p.rule = "damage_that_would_be_dealt_to_you_by_source_is_dealt_to_source_instead" ->
           Node("DamageThatWouldBeDealtToYouBySourceIsDealtToSourceInstead",
                << static_damage_source_from_pair(Kid(p, 1)),
                   static_damage_redirection_destination_from_pair(Kid(p, 2)) >>)
      [] p.rule = "becomes_pt_from_mv" ->
           Node("BecomesWithPtFromManaValue", <<Each(p, permanent_type_from_pair)>>)
      [] p.rule = "source_pt_equal_to_basic_lands_controlled" ->
           Node("SourcePowerToughnessEachEqualToBasicLandsControlled",
                <<basic_land_type_from_plural_pair(Kid(p, 1)), land_count_controller_from_pair(Kid(p, 2))>>)
      [] p.rule = "static_untap_restriction_during_untap_steps" ->
           Node("UntapRestrictionDuringUntapSteps", <<static_untap_restriction_from_pair(p)>>)
      [] OTHER -> Internal

write_static_damage_prevention_effect(a) ==
    T("prevent") \o write_damage_prevention_amount_axis(a.c[1]) \o write_damage_kind_prefix(a.c[2])
    \o T("damage") \o land_subtype_plural_name(a.c[3]) \o T("would deal to")
    \o Joined(Parts(a.c[4], write_prevention_recipient), T("and to"), T("and to"))
static_damage_source_name(a) ==
    Written(a, [Source |-> "a source", UnblockedCreatures |-> "unblocked creatures"])
write_static_damage_redirection_destination(a) ==
    IF a.n = "ThatSource" THEN T("that source") ELSE write_source_object(a.c[1])
write_static_untap_restriction(a) ==
    CASE a.n = "CreaturesWithPowerOrGreater" ->
           T("creatures with power") \o <<a.c[1].n>>
           \o T("or greater don't untap during their controllers' untap steps")
      [] a.n = "PlayersCantUntapMoreThanPermanents" ->
           T("players can't untap more than") \o u32_to_number_word(a.c[1])
           \o permanent_type_name(a.c[2]) \o T("during their untap steps")
      [] a.n = "PlayersSkipTheirUntapSteps" -> T("players skip their untap steps")
write_continuous_effect(a) ==
    CASE a.n = "SourceGets" -> write_source_object(a.c[1]) \o T("gets") \o write_pt_modifier(a.c[2])
      [] a.n = "DamageThatWouldBeDealtToYouBySourceIsDealtToSourceInstead" ->
           T("all damage that would be dealt to you by") \o static_damage_source_name(a.c[1])
           \o T("is dealt to") \o write_static_damage_redirection_destination(a.c[2]) \o T("instead")
      [] a.n = "PreventDamage" -> write_static_damage_prevention_effect(a.c[1])
      [] a.n = "BecomesWithPtFromManaValue" ->
           T("it's a") \o FlattenSeq(Parts(a.c[1], permanent_type_name))
           \o T("with power and toughness each equal to its mana value")
      [] a.n = "SourcePowerToughnessEachEqualToBasicLandsControlled" ->
           T("its power and toughness are each equal to the number of") \o basic_land_type_plural_name(a.c[1])
           \o Written(a.c[2], [You |-> "you control", DefendingPlayer |-> "defending player controls"])
      [] a.n = "UntapRestrictionDuringUntapSteps" -> write_static_untap_restriction(a.c[1])
=============================================================================
