---------------------------- MODULE AddCardClaims ----------------------------
(***************************************************************************)
(* What the comments and documents of the repository say of the add-card   *)
(* loop and its code does not keep.                                        *)
(***************************************************************************)
EXTENDS AddCard

\* "The loop terminates with SessionEndReason::CorpusComplete when no more paper
\* expansion sets exist in Scryfall" (ARCHITECTURE.md): it terminates.
LoopTerminates == pc # "down" ~> pc = "down"

\* "the loop walks the tracked sets newest-first and advances to the next paper
\* expansion when the current one is fully covered" (Options in add_card.rs): when the
\* covered set is followed by a new one, and a corpus run of the working tree would
\* lose no card, the advance finds no regression either.
CoveredSetAdvances ==
    pc = "advance" =>
        \A next \in Sets :
            IsNextNewSet(next) /\ ~Regresses(Tracking(tree, next)) => ~AdvanceRegresses(next)
=============================================================================
