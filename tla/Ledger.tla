------------------------------- MODULE Ledger -------------------------------
(***************************************************************************)
(* What a channel promises its two users about money.  Each side keeps a   *)
(* book of what it owns.  A push is offered, taken by the receiver, and    *)
(* settled by the payer, in this order; an offer that was not taken may be *)
(* withdrawn.  The payer's book changes last, so while a push is taken and *)
(* not settled its amount is in both books, and never in neither.  A side  *)
(* may offer more than it owns; the receiver does not take that.           *)
(***************************************************************************)
EXTENDS Integers

CONSTANTS Node, Peer(_),
          Opening,  \* what each side owns at first
          Amount    \* what may be offered

VARIABLES book,   \* what each side owns, in its own eyes
          out,    \* the push each side has offered and not settled, or 0
          taken   \* the receiver has it in its book

ledger == <<book, out, taken>>

LedgerInit ==
    /\ book = Opening
    /\ out = [n \in Node |-> 0]
    /\ taken = [n \in Node |-> FALSE]

Offer(n) ==
    /\ out[n] = 0
    /\ \E a \in Amount : out' = [out EXCEPT ![n] = a]
    /\ UNCHANGED <<book, taken>>

Withdraw(n) ==
    /\ ~taken[n]
    /\ out' = [out EXCEPT ![n] = 0]
    /\ UNCHANGED <<book, taken>>

(* Taking the peer's push may replace an offer of one's own that was not   *)
(* taken.                                                                  *)
Take(n) ==
    /\ out[n] \in 1 .. book[n] /\ ~taken[n]
    /\ book' = [book EXCEPT ![Peer(n)] = @ + out[n]]
    /\ taken' = [taken EXCEPT ![n] = TRUE]
    /\ \/ UNCHANGED out
       \/ ~taken[Peer(n)] /\ out' = [out EXCEPT ![Peer(n)] = 0]

Settle(n) ==
    /\ taken[n]
    /\ book' = [book EXCEPT ![n] = @ - out[n]]
    /\ out' = [out EXCEPT ![n] = 0]
    /\ taken' = [taken EXCEPT ![n] = FALSE]

LedgerNext == \E n \in Node : Offer(n) \/ Withdraw(n) \/ Take(n) \/ Settle(n)

LedgerSpec == LedgerInit /\ [][LedgerNext]_ledger

=============================================================================
