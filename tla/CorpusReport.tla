---------------------------- MODULE CorpusReport ----------------------------
(***************************************************************************)
(* The corpus report of mtg-corpus (check.rs, report.rs) and the pure part *)
(* of xtask/src/corpus_cmd.rs: which cards a run covers, what it writes    *)
(* and what it calls a regression.                                         *)
(*                                                                         *)
(* The grammar, AST and unparser are abstracted to the set "rt" of the     *)
(* cards whose text satisfies parse(unparse(parse(text))) = parse(text).   *)
(* A card stands for its key, set code + "/" + name.                       *)
(***************************************************************************)
EXTENDS Naturals, Sequences

CONSTANTS
    Cards,        \* every card Scryfall lists or may come to list
    Sets,         \* set codes
    SetOf,        \* the set a card belongs to
    Normal,       \* the cards whose layout is Layout::Normal
    Vanilla,      \* the cards whose normalized oracle text is empty
    ReleaseOrder  \* paper core/expansion sets, by release date

ASSUME CardAssumption ==
    /\ SetOf \in [Cards -> Sets]
    /\ Normal \subseteq Cards
    /\ Vanilla \subseteq Cards
    /\ ReleaseOrder \in Seq(Sets)

\* The cards check_card hands to the round-trip assertion; it fails all others.
Parseable == Normal \ Vanilla

CorpusReports == [known : SUBSET Cards, pass : SUBSET Cards]

\* build_report: one outcome per card of the run, decided by check_card.
BuildReport(cards, rt) ==
    [known |-> cards, pass |-> {c \in cards : c \in Parseable /\ c \in rt}]

Failing(report) == report.known \ report.pass

\* diff().new_failures: only the cards of the new report are looked at, and a
\* card the old report does not know was not passing.
NewFailures(old, new) == old.pass \cap Failing(new)

\* build_corpus: the published cards of every tracked set.
CorpusCards(published, tracked) ==
    {c \in published : \E i \in DOMAIN tracked : tracked[i] = SetOf[c]}

\* A failure with the reason "empty oracle text" asks for no grammar work; one
\* with the reason "unsupported layout" counts as actionable.
Actionable(report, set) ==
    {c \in Failing(report) : SetOf[c] = set /\ ~(c \in Normal /\ c \in Vanilla)}

IsTracked(tracked, set) == \E i \in DOMAIN tracked : tracked[i] = set

\* advance_one_set looks for the release after the LAST tracked set.
Newest(tracked) == tracked[Len(tracked)]

IsReleaseAfter(set, next) ==
    \E i \in 1 .. Len(ReleaseOrder) - 1 :
        ReleaseOrder[i] = set /\ ReleaseOrder[i + 1] = next

IsLastRelease(set) ==
    Len(ReleaseOrder) > 0 /\ ReleaseOrder[Len(ReleaseOrder)] = set
=============================================================================
