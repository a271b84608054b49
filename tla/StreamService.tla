---------------------------- MODULE StreamService -----------------------------
(***************************************************************************)
(* What TCP promises its two users: each reads what the other has written, *)
(* in order and once, then the end of the stream, and nothing after that;  *)
(* or it is told that the connection is gone.                              *)
(***************************************************************************)
EXTENDS Naturals, Sequences

CONSTANTS Hosts, Peer(_)

VARIABLES
  sent,     \* per host, what it has written
  ended,    \* whether it has ended its stream
  got,      \* what it has been given
  eof,      \* whether it has been told the end of the other's stream
  gone      \* whether it has been told that the connection is gone

vars == <<sent, ended, got, eof, gone>>

Init ==
  /\ sent = [h \in Hosts |-> <<>>] /\ got = [h \in Hosts |-> <<>>]
  /\ ended = [h \in Hosts |-> FALSE] /\ eof = [h \in Hosts |-> FALSE]
  /\ gone = [h \in Hosts |-> FALSE]

Write(h) ==
  /\ ~ended[h] /\ ~gone[h]
  /\ Len(sent'[h]) > Len(sent[h]) /\ SubSeq(sent'[h], 1, Len(sent[h])) = sent[h]
  /\ sent' = [sent EXCEPT ![h] = sent'[h]]
  /\ UNCHANGED <<ended, got, eof, gone>>

Finish(h) ==
  /\ ~ended[h] /\ ended' = [ended EXCEPT ![h] = TRUE]
  /\ UNCHANGED <<sent, got, eof, gone>>

(* More of the other's stream arrives, perhaps the last of it, perhaps the *)
(* news that the connection is gone.                                       *)
Arrive(h) ==
  /\ \E n \in Len(got[h])..Len(sent[Peer(h)]) :
       got' = [got EXCEPT ![h] = SubSeq(sent[Peer(h)], 1, n)]
  /\ eof[h] => got'[h] = got[h]
  /\ \/ UNCHANGED eof
     \/ /\ ended[Peer(h)] /\ got'[h] = sent[Peer(h)]
        /\ eof' = [eof EXCEPT ![h] = TRUE]
  /\ \/ UNCHANGED gone
     \/ gone' = [gone EXCEPT ![h] = TRUE]
  /\ UNCHANGED <<sent, ended>>

Next == \E h \in Hosts : Write(h) \/ Finish(h) \/ Arrive(h)

Spec == Init /\ [][Next]_vars

=============================================================================
