---------------------------- MODULE LossyChannel ----------------------------
(***************************************************************************)
(* What an application may rely on when it hands a record to the optional  *)
(* background writer of the SDK, and nothing about how it is done: records *)
(* are numbered in the order they are offered; a record that was let in is *)
(* either delivered or lost; what is delivered is delivered once and in    *)
(* order; nothing enters after the channel is shut; and a forked child     *)
(* starts with an empty channel of its own.  BoundedWriter implements it.  *)
(***************************************************************************)
EXTENDS Naturals, Sequences

VARIABLES
  last,       (* number of the record offered last                         *)
  pending,    (* records let in that are neither delivered nor lost        *)
  delivered,  (* records delivered by this process, in order of delivery   *)
  shut        (* no record is let in any more                              *)

chanVars == <<last, pending, delivered, shut>>

Oldest(S) == CHOOSE id \in S : \A other \in S : id <= other

Init ==
  /\ last = 0
  /\ pending = {}
  /\ delivered = <<>>
  /\ shut = FALSE

(* A record is let in.  A channel that keeps only the newest record may    *)
(* lose pending ones to make room.                                         *)
LetIn ==
  /\ ~shut
  /\ last' = last + 1
  /\ \E kept \in SUBSET pending : pending' = kept \cup {last + 1}
  /\ UNCHANGED <<delivered, shut>>

(* A record is turned away; failing while doing so may shut the channel    *)
(* and lose what it held.                                                  *)
TurnAway ==
  /\ last' = last + 1
  /\ pending' \in SUBSET pending
  /\ shut' \in {shut, TRUE}
  /\ UNCHANGED delivered

Deliver ==
  /\ pending # {}
  /\ delivered' = Append(delivered, Oldest(pending))
  /\ pending' = pending \ {Oldest(pending)}
  /\ UNCHANGED <<last, shut>>

Lose ==
  /\ pending' \in SUBSET pending
  /\ shut' \in {shut, TRUE}
  /\ UNCHANGED <<last, delivered>>

(* From here on the behaviour is that of the forked child.                 *)
Fork ==
  /\ pending' = {}
  /\ delivered' = <<>>
  /\ UNCHANGED <<last, shut>>

Next == LetIn \/ TurnAway \/ Deliver \/ Lose \/ Fork

Spec == Init /\ [][Next]_chanVars
=============================================================================
