----------------------------- MODULE SessionRow -----------------------------
(***************************************************************************)
(* The sessions row of one tag (store/sessions.go, 0001_init.sql): one     *)
(* operator per SQL statement.  Every statement runs under the store's     *)
(* write mutex, and SQLite executes it atomically, so each operator is one *)
(* step of whichever goroutine calls it.                                   *)
(*                                                                         *)
(* A session key pair is named by the two values it is derived from: the   *)
(* DevNonce the tag put in and the join-request the network answered (each *)
(* answer carries a JoinNonce of its own).  The network derives the same   *)
(* keys as the tag exactly when both are the same request.                 *)
(***************************************************************************)
EXTENDS Naturals

CONSTANTS
    MaxDevNonce,    \* largest DevNonce a uint16 holds (65535 in the code)
    MaxFCnt         \* largest counter a uint32 holds (2^32 - 1 in the code)

ASSUME WidthAssumption == MaxDevNonce \in Nat \ {0} /\ MaxFCnt \in Nat \ {0}

Key == [nonce : Nat, answers : Nat]

NoKey == [nonce |-> 0, answers |-> 0]

Row == [joined : BOOLEAN, key : Key, up : Nat, down : Nat, nonce : Nat]

NewRow == [joined |-> FALSE, key |-> NoKey, up |-> 0, down |-> 0, nonce |-> 0]

\* The columns are SQLite integers and Get scans them into a uint16 and a
\* uint32: a value that outgrew its Go type makes every later Get fail.
Readable(r) == r.nonce <= MaxDevNonce /\ r.up <= MaxFCnt

\* Mutant: the column wraps with the uint16.
NonceWrapped(r) == [r EXCEPT !.nonce = (@ + 1) % (MaxDevNonce + 1)]

\* UPDATE dev_nonce = dev_nonce + 1 RETURNING dev_nonce.  The caller gets the
\* new value, or an error when it does not fit (the row keeps it all the same).
NonceTaken(r) == [r EXCEPT !.nonce = @ + 1]

\* UPDATE keys, joined = 1, fcnt_up = 0, fcnt_down = 0; dev_nonce is kept.
JoinSaved(r, k) ==
    [joined |-> TRUE, key |-> k, up |-> 0, down |-> 0, nonce |-> r.nonce]

\* Mutant: the counter is read and not advanced.
UpOnlyRead(r) == r

\* UPDATE fcnt_up = fcnt_up + 1 RETURNING fcnt_up - 1.
UpTaken(r) == [r EXCEPT !.up = @ + 1]

\* UPDATE fcnt_down = f.
DownSet(r, f) == [r EXCEPT !.down = f]
=============================================================================
