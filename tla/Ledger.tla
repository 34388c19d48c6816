------------------------------- MODULE Ledger -------------------------------
(***************************************************************************)
(* What the GL promises its callers, without workers, caches or retries:   *)
(* a book that maps a source event to its journal entry.  An event is      *)
(* posted at most once and its entry never changes; an entry balances, and *)
(* a reversal mirrors an entry that is in the book; a caller is only ever  *)
(* given the entry in the book.                                            *)
(***************************************************************************)
CONSTANTS Keys,          \* the source events
          Reversals,     \* the rules whose entries undo another entry
          Balanced(_),   \* the lines a ledger may hold
          Mirror(_)      \* the lines that undo some lines

VARIABLES book, given

Init ==
    /\ book = <<>>
    /\ given = {}

Admissible(e) ==
    /\ Balanced(e.lines)
    /\ e.rule \in Reversals =>
          e.reverses \in DOMAIN book /\ e.lines = Mirror(book[e.reverses].lines)

Post(k) ==
    /\ k \notin DOMAIN book
    /\ DOMAIN book' = DOMAIN book \cup {k}
    /\ \A j \in DOMAIN book : book'[j] = book[j]
    /\ Admissible(book'[k])
    /\ UNCHANGED given

Give(k) ==
    /\ k \in DOMAIN book
    /\ given' = given \cup {<<k, book[k]>>}
    /\ UNCHANGED book

Next == \E k \in Keys : Post(k) \/ Give(k)

Spec == Init /\ [][Next]_<<book, given>>
=============================================================================
