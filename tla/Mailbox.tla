------------------------------- MODULE Mailbox -------------------------------
(***************************************************************************)
(* What an OSCReceiver promises to the script that polls it, without its   *)
(* threads, mutex, double buffer and cursors: messages enter an inbox in    *)
(* the order of their arrival, the newest of them may be dropped, a prefix *)
(* of the inbox is published as a batch once the previous batch has been    *)
(* read to its end, and the script takes the messages of a batch one by    *)
(* one.  A published batch is the prefix itself, or its collapse: the last *)
(* message of each address, ordered by address.                            *)
(***************************************************************************)
EXTENDS Naturals, Sequences

CONSTANTS Addresses    \* the OSC address patterns, as numbers in the order of their strings

VARIABLES arrived,     \* how many messages have arrived
          inbox,       \* messages not yet published, oldest first
          outbox,      \* the part of the published batch the script has not taken
          delivered    \* everything the script has taken, in order

mailboxVars == <<arrived, inbox, outbox, delivered>>

Message == [id : Nat \ {0}, addr : Addresses]

Elements(q) == {q[i] : i \in 1..Len(q)}

SeqsUpTo(S, n) == UNION {[1..k -> S] : k \in 0..n}

\* The message at position i is the last one of its address in q.
IsLatest(q, i) == \A j \in 1..Len(q) : q[j].addr = q[i].addr => j <= i

(***************************************************************************)
(* The collapse of q, as a set with exactly one element: the latest        *)
(* messages of q, in increasing order of address.                          *)
(***************************************************************************)
Collapse(q) ==
  LET latest == {q[i] : i \in {j \in 1..Len(q) : IsLatest(q, j)}}
  IN  {s \in SeqsUpTo(latest, Len(q)) :
         /\ Elements(s) = latest
         /\ \A i, j \in 1..Len(s) : i < j => s[i].addr < s[j].addr}

-----------------------------------------------------------------------------
Init ==
  /\ arrived = 0
  /\ inbox = <<>>
  /\ outbox = <<>>
  /\ delivered = <<>>

Arrive ==
  \E a \in Addresses :
    /\ arrived' = arrived + 1
    /\ inbox' = Append(inbox, [id |-> arrived + 1, addr |-> a])
    /\ UNCHANGED <<outbox, delivered>>

\* A full inbox loses its newest messages, never its oldest.
DropNewest ==
  \E n \in 0..Len(inbox) :
    /\ inbox' = SubSeq(inbox, 1, n)
    /\ UNCHANGED <<arrived, outbox, delivered>>

\* Only when the previous batch has been taken to its end.
Publish ==
  \E n \in 0..Len(inbox) :
    /\ outbox = <<>>
    /\ outbox' \in {SubSeq(inbox, 1, n)} \cup Collapse(SubSeq(inbox, 1, n))
    /\ inbox' = SubSeq(inbox, n + 1, Len(inbox))
    /\ UNCHANGED <<arrived, delivered>>

Take ==
  /\ outbox # <<>>
  /\ delivered' = Append(delivered, Head(outbox))
  /\ outbox' = Tail(outbox)
  /\ UNCHANGED <<arrived, inbox>>

Next == Arrive \/ DropNewest \/ Publish \/ Take

Spec == Init /\ [][Next]_mailboxVars

-----------------------------------------------------------------------------
(***************************************************************************)
(* The messages of one address are taken in the order of their arrival and *)
(* none of them twice, in whatever batches they are published.             *)
(***************************************************************************)
Timeline == delivered \o outbox \o inbox

PerAddressOrder ==
  \A i, j \in 1..Len(Timeline) :
    (i < j /\ Timeline[i].addr = Timeline[j].addr) => Timeline[i].id < Timeline[j].id

(***************************************************************************)
(* Batches come in order: what has been published or taken arrived before  *)
(* everything that is still unpublished, though a collapsed batch is       *)
(* ordered by address.                                                     *)
(***************************************************************************)
BatchesInOrder ==
  \A m \in Elements(delivered) \cup Elements(outbox), n \in Elements(inbox) : m.id < n.id

=============================================================================
