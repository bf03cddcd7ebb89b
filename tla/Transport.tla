------------------------------ MODULE Transport ------------------------------
(***************************************************************************)
(* transport/grpc.go: how the messages of a replica reach the others.  The *)
(* applier's sending goroutine calls Send, which groups a batch by its     *)
(* destination and puts each group into a buffered channel; a goroutine    *)
(* per channel dials the destination and writes the groups to a stream,    *)
(* and ends when the stream breaks.  The next group opens a new channel.   *)
(* At the other end a goroutine per stream receives and calls              *)
(* HandleMessage.  Close cancels all of it.                                *)
(*                                                                         *)
(* A connection is a channel with its sender, its stream and its receiver. *)
(* gRPC is external: a stream keeps its order, and loses what is in it     *)
(* when it breaks.  The arms of sender that call log.Fatal end the process *)
(* and are left out.                                                       *)
(***************************************************************************)
EXTENDS Integers, Sequences, FiniteSets, SequencesExt

CONSTANTS
    Self,       \* g.id
    Peers,      \* the peers, Self included: 0, 1, ...
    Batches,    \* the batches passed to Send, each a sequence of [to, no]
    BufCap,     \* the capacity of a channel
    MaxBreaks   \* bound on the number of broken streams

\* no numbers the messages: no two of them are the same, so that Fifo can tell a message
\* that is handled twice from two equal ones.
TransportAssumption ==
    /\ Self \in Peers /\ IsFiniteSet(Peers) /\ Peers = 0 .. Cardinality(Peers) - 1
    /\ BufCap \in Nat \ {0} /\ MaxBreaks \in Nat
    /\ Batches \in Seq(Seq([to : Peers, no : Nat]))
    /\ \A n \in DOMAIN Batches : Batches[n] # << >>
    /\ \A n, o \in DOMAIN Batches : \A x \in DOMAIN Batches[n], y \in DOMAIN Batches[o] :
          Batches[n][x] = Batches[o][y] => n = o /\ x = y

VARIABLES
    up,         \* the peers that can be reached
    calls,      \* number of calls of Send
    todo,       \* the groups the current call has still to pass to sendAsync
    chosen,     \* the connection whose channel sendAsync waits on, or 0
    clientBufs, \* [Peers -> number of a connection, or 0]
    conns,      \* the connections: [to, buf, open, pc, alive, stream, handler]
    received,   \* [Peers -> the groups handled there: [conn, group]]
    cancelled,  \* dialCtx is cancelled
    closing,    \* Close: "no", "cancelled" or "closed"
    crashed     \* a send on a closed channel has panicked

transportVars == <<up, calls, todo, chosen, clientBufs, conns, received, cancelled, closing, crashed>>

Breaks == Cardinality({k \in DOMAIN conns : ~conns[k].alive})

Init ==
    /\ up \in SUBSET (Peers \ {Self}) /\ up # {}
    /\ calls = 0 /\ todo = << >> /\ chosen = 0
    /\ clientBufs = [p \in Peers |-> 0] /\ conns = << >>
    /\ received = [p \in Peers |-> << >>]
    /\ cancelled = FALSE /\ closing = "no" /\ crashed = FALSE

-----------------------------------------------------------------------------
(* The sending goroutine *)

\* The messages of a batch for p, in their order.
To(batch, p) == FlattenSeq([x \in DOMAIN batch |-> IF batch[x].to = p THEN <<batch[x]>> ELSE << >>])

\* Mutant of Groups: every run of messages to one destination is reversed, as
\* an unstable sort may do.
GroupsUnstable(batch) ==
    FlattenSeq([n \in 1 .. Cardinality(Peers) |->
                   IF To(batch, n - 1) = << >> THEN << >> ELSE <<Reverse(To(batch, n - 1))>>])

\* Mutant of Groups: the group after the loop of Send is forgotten.
GroupsButLast(batch) ==
    Front(FlattenSeq([n \in 1 .. Cardinality(Peers) |->
                         IF To(batch, n - 1) = << >> THEN << >> ELSE <<To(batch, n - 1)>>]))

\* sortMsgs, which is stable, and the slices of one destination each.
Groups(batch) ==
    FlattenSeq([n \in 1 .. Cardinality(Peers) |->
                   IF To(batch, n - 1) = << >> THEN << >> ELSE <<To(batch, n - 1)>>])

Send ==
    /\ todo = << >> /\ calls < Len(Batches)
    /\ calls' = calls + 1
    /\ todo' = Groups(Batches[calls + 1])
    /\ UNCHANGED <<up, chosen, clientBufs, conns, received, cancelled, closing, crashed>>

\* sendAsync to the peer itself.
SendToSelf ==
    /\ todo # << >> /\ Head(todo)[1].to = Self
    /\ received' = [received EXCEPT ![Self] = Append(@, [conn |-> 0, group |-> Head(todo)])]
    /\ todo' = Tail(todo)
    /\ UNCHANGED <<up, calls, chosen, clientBufs, conns, cancelled, closing, crashed>>

\* sendAsync finds a channel.
Lookup ==
    /\ todo # << >> /\ chosen = 0
    /\ clientBufs[Head(todo)[1].to] # 0
    /\ chosen' = clientBufs[Head(todo)[1].to]
    /\ UNCHANGED <<up, calls, todo, clientBufs, conns, received, cancelled, closing, crashed>>

\* sendAsync makes a channel and starts its sender; the channel has room, and
\* with dialCtx cancelled the select may drop the group.
Open ==
    LET p == Head(todo)[1].to
    IN  /\ todo # << >> /\ chosen = 0 /\ p # Self /\ clientBufs[p] = 0
        /\ \E buf \in {<< >>, <<Head(todo)>>} :
              /\ buf = << >> => cancelled
              /\ conns' = Append(conns, [to |-> p, buf |-> buf, open |-> TRUE, pc |-> "dial",
                                         alive |-> TRUE, stream |-> << >>, handler |-> << >>])
        /\ clientBufs' = [clientBufs EXCEPT ![p] = Len(conns')]
        /\ todo' = Tail(todo)
        /\ UNCHANGED <<up, calls, chosen, received, cancelled, closing, crashed>>

\* Mutant of Put: no case for a cancelled dialCtx.
PutOnly ==
    /\ chosen # 0
    /\ \/ /\ conns[chosen].open /\ Len(conns[chosen].buf) < BufCap
          /\ conns' = [conns EXCEPT ![chosen].buf = Append(@, Head(todo))]
          /\ UNCHANGED crashed
       \/ /\ ~conns[chosen].open
          /\ crashed' = TRUE
          /\ UNCHANGED conns
    /\ todo' = Tail(todo)
    /\ chosen' = 0
    /\ UNCHANGED <<up, calls, clientBufs, received, cancelled, closing>>

\* The select of sendAsync: the channel has room, or is closed, which panics,
\* or dialCtx is done.  A group that is dropped is lost.
Put ==
    /\ chosen # 0
    /\ \/ /\ conns[chosen].open /\ Len(conns[chosen].buf) < BufCap
          /\ conns' = [conns EXCEPT ![chosen].buf = Append(@, Head(todo))]
          /\ UNCHANGED crashed
       \/ /\ ~conns[chosen].open
          /\ crashed' = TRUE
          /\ UNCHANGED conns
       \/ /\ cancelled
          /\ UNCHANGED <<conns, crashed>>
    /\ todo' = Tail(todo)
    /\ chosen' = 0
    /\ UNCHANGED <<up, calls, clientBufs, received, cancelled, closing>>

sendAsync == SendToSelf \/ Lookup \/ Open \/ Put

-----------------------------------------------------------------------------
(* The sender of a connection *)

\* DialContext and client.Message, tried again until they succeed or dialCtx
\* is cancelled.
Dial(k) ==
    /\ conns[k].pc = "dial"
    /\ \/ conns[k].to \in up /\ ~cancelled /\ conns' = [conns EXCEPT ![k].pc = "send"]
       \/ cancelled /\ conns' = [conns EXCEPT ![k].pc = "return"]
    /\ UNCHANGED <<up, calls, todo, chosen, clientBufs, received, cancelled, closing, crashed>>

\* for m := range c { stream.Send(m) }: a broken stream returns io.EOF or
\* Canceled, and the group is lost; a closed channel ends the loop when empty.
Transmit(k) ==
    /\ conns[k].pc = "send"
    /\ \/ /\ conns[k].buf # << >>
          /\ conns' = [conns EXCEPT ![k].buf = Tail(@),
                                    ![k].stream = IF conns[k].alive THEN Append(@, Head(conns[k].buf)) ELSE @,
                                    ![k].pc = IF conns[k].alive THEN @ ELSE "return"]
       \/ /\ conns[k].buf = << >> /\ ~conns[k].open
          /\ conns' = [conns EXCEPT ![k].pc = "return"]
    /\ UNCHANGED <<up, calls, todo, chosen, clientBufs, received, cancelled, closing, crashed>>

\* The deferred function: whatever channel the map has for the destination.
Return(k) ==
    /\ conns[k].pc = "return"
    /\ conns' = [conns EXCEPT ![k].pc = "gone"]
    /\ clientBufs' = [clientBufs EXCEPT ![conns[k].to] = 0]
    /\ UNCHANGED <<up, calls, todo, chosen, received, cancelled, closing, crashed>>

sender(k) == Dial(k) \/ Transmit(k) \/ Return(k)

-----------------------------------------------------------------------------
(* The stream and the goroutine that serves it at the other end *)

\* stream.Recv in Message.
Recv(k) ==
    /\ conns[k].stream # << >> /\ conns[k].handler = << >>
    /\ conns' = [conns EXCEPT ![k].handler = <<Head(conns[k].stream)>>, ![k].stream = Tail(@)]
    /\ UNCHANGED <<up, calls, todo, chosen, clientBufs, received, cancelled, closing, crashed>>

\* g.handler.HandleMessage(in)
Handle(k) ==
    /\ conns[k].handler # << >>
    /\ received' = [received EXCEPT ![conns[k].to] =
                       Append(@, [conn |-> k, group |-> conns[k].handler[1]])]
    /\ conns' = [conns EXCEPT ![k].handler = << >>]
    /\ UNCHANGED <<up, calls, todo, chosen, clientBufs, cancelled, closing, crashed>>

Message(k) == Recv(k) \/ Handle(k)

\* The connection is lost, and what is on its way with it.
Break(k) ==
    /\ conns[k].pc = "send" /\ conns[k].alive /\ Breaks < MaxBreaks
    /\ conns' = [conns EXCEPT ![k].alive = FALSE, ![k].stream = << >>]
    /\ UNCHANGED <<up, calls, todo, chosen, clientBufs, received, cancelled, closing, crashed>>

-----------------------------------------------------------------------------
(* Close *)

\* dialCancel, which ends the streams too.
Cancel ==
    /\ closing = "no"
    /\ closing' = "cancelled" /\ cancelled' = TRUE
    /\ conns' = [k \in DOMAIN conns |-> [conns[k] EXCEPT !.alive = FALSE, !.stream = << >>]]
    /\ UNCHANGED <<up, calls, todo, chosen, clientBufs, received, crashed>>

\* close(c) and delete for every channel, under clientMu.
CloseChannels ==
    /\ closing = "cancelled"
    /\ closing' = "closed"
    /\ conns' = [k \in DOMAIN conns |->
                    [conns[k] EXCEPT !.open = @ /\ clientBufs[conns[k].to] # k]]
    /\ clientBufs' = [p \in Peers |-> 0]
    /\ UNCHANGED <<up, calls, todo, chosen, received, cancelled, crashed>>

Close == Cancel \/ CloseChannels

Next ==
    /\ ~crashed
    /\ \/ Send \/ sendAsync
       \/ \E k \in DOMAIN conns : sender(k) \/ Message(k) \/ Break(k)
       \/ Close

\* A call of sendAsync opens one connection at most.
MaxConns == FoldLeft(LAMBDA n, batch : n + Len(Groups(batch)), 0, Batches)

-----------------------------------------------------------------------------
(* Properties *)

\* The messages passed to Send for p, in that order.
Passed(p) == FlattenSeq([n \in 1 .. calls |-> To(Batches[n], p)])

\* What p has handled that came through connection k.
Through(p, k) ==
    FlattenSeq([n \in DOMAIN received[p] |->
                   IF received[p][n].conn = k THEN received[p][n].group ELSE << >>])

\* What one connection brings to a peer is a run of the messages that were
\* passed to Send for it, in that order and without a gap: nothing is lost,
\* repeated or overtaken until the stream breaks, and a message that a broken
\* stream lost is not replaced by a later one of the same stream.
Fifo ==
    \A p \in Peers \ {Self}, k \in DOMAIN conns :
       conns[k].to = p => \E from \in 0 .. Len(Passed(p)) :
          IsPrefix(Through(p, k), SubSeq(Passed(p), from + 1, Len(Passed(p))))

\* No message is handled twice, however often the streams break.
HandledOnce ==
    \A p \in Peers :
       LET all == FlattenSeq([n \in DOMAIN received[p] |-> received[p][n].group])
       IN  \A x, y \in DOMAIN all : all[x] = all[y] => x = y

\* The channel sendAsync waits on is full, and its destination is down or its
\* sender has returned.
Stuck ==
    /\ chosen # 0 /\ Len(conns[chosen].buf) = BufCap
    /\ conns[chosen].to \notin up \/ conns[chosen].pc = "gone"

\* Nothing that was passed to Send for a peer that is up is on its way.
AllReceived ==
    \A p \in up : Passed(p) =
       FlattenSeq([n \in DOMAIN received[p] |-> received[p][n].group])
=============================================================================
