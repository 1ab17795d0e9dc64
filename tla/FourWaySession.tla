-------------------------- MODULE FourWaySession --------------------------
(***************************************************************************)
(* escsim/control/fourway_server.py and the link side of msp_stub_fc.py:   *)
(* a configurator talks MSP to the flight controller, switches to 4-way    *)
(* passthrough, works on the bootloaders of the ESCs and leaves again.     *)
(* One thread reads whatever the link holds and works through its frames;  *)
(* a frame may take long, and the client sends the same frame again - also *)
(* when the answer is already on its way - or gives up and sends another.  *)
(*                                                                         *)
(* A frame is a record: its request, which every copy of it shares, its    *)
(* place among all frames sent, its kind and the ESC it names.  Reads,     *)
(* writes and page erases are one kind, "data"; so are all requests that   *)
(* need no ESC, "info".  Whether an ESC answers is chosen.                 *)
(***************************************************************************)
EXTENDS Naturals, Sequences, FiniteSets, SequencesExt

CONSTANTS
    Escs,
    Kinds,          \* kinds of frames the client sends
    MaxSends        \* bound: frames sent

NoEsc == "no ESC"
Named == {"init", "reset"}
Frame == [req : 1..MaxSends, no : 1..MaxSends,
          kind : {"msp", "pass", "info", "init", "reset", "alive", "data", "exit"},
          esc : Escs \cup {NoEsc}]

VARIABLES
    inFourway,      \* MspStubFC.in_fourway
    pc,             \* the MSP thread
    mspBuf,         \* buf of _msp_loop
    buf,            \* FourWayServer.buf
    lastRequest,    \* FourWayServer.last_request: 0 or its request
    target,         \* FourWayServer.target
    connected,      \* FourWayServer.connected
    exited,         \* FourWayServer.exited
    cur,            \* the frame feed is working on
    out,            \* answers feed has collected
    link,           \* external: frames sent and not read
    answers,        \* external: answers written and not read
    want,           \* external: the frame the client waits for, or "none"
    req, sends,     \* external: requests and frames sent so far
    esc,            \* external: what each ESC runs: "app" or "boot"
    gaveUp,         \* observer: the client has stopped waiting for an answer
    late,           \* observer: the copies sent while the thread had no request in work
    served,         \* observer: the copies of requests that were answered
    queued,         \* observer: copies that waited when their request was done
    owed,           \* observer: the 4-way requests of this session that have reached the
                    \* link, and that were never answered
    inTouch,        \* observer: ESCs whose last transaction of this session
                    \* was answered by their bootloader
    unheard         \* observer: ESCs that were sent RUN at the exit, which the wire lost

server == <<buf, lastRequest, target, connected, exited>>
client == <<want, req, sends, gaveUp, late>>
vars == <<inFourway, pc, mspBuf, server, cur, out, link, answers, client, esc,
          served, queued, owed, inTouch, unheard>>

NoFrame == [req |-> 0, no |-> 0, kind |-> "none", esc |-> NoEsc]
FourwayKind(f) == f.kind \notin {"msp", "pass"}

\* Which copy of which request a frame is.
CopyOf(f) == [req |-> f.req, no |-> f.no]

Init ==
    /\ inFourway = FALSE /\ pc = "read" /\ mspBuf = <<>>
    /\ buf = <<>> /\ lastRequest = 0 /\ target = 0 /\ connected = {} /\ exited = FALSE
    /\ cur = NoFrame /\ out = <<>> /\ link = <<>> /\ answers = <<>>
    /\ want = NoFrame /\ req = 0 /\ sends = 0
    /\ esc \in [Escs -> {"app", "boot"}]
    /\ gaveUp = FALSE /\ late = {} /\ served = {} /\ queued = {} /\ owed = {}
    /\ inTouch = {} /\ unheard = {}

-----------------------------------------------------------------------------
(* The client. *)

\* The 4-way requests among some frames that were never answered.
Unanswered(frames) ==
    {r \in 1..MaxSends : /\ \E f \in frames : f.req = r /\ FourwayKind(f)
                        /\ \A c \in served : c.req # r}

Send(f) ==
    /\ sends < MaxSends /\ sends' = sends + 1 /\ link' = Append(link, f)
    /\ owed' = IF inFourway THEN owed \cup Unanswered({f}) ELSE owed

\* It begins with a passthrough.
Ask ==
    /\ want = NoFrame
    /\ \E k \in IF req = 0 THEN {"pass"} ELSE Kinds : \E e \in IF k \in Named THEN Escs ELSE {NoEsc} :
        LET f == [req |-> req + 1, no |-> sends + 1, kind |-> k, esc |-> e]
        IN  Send(f) /\ want' = f
    /\ req' = req + 1
    /\ UNCHANGED <<inFourway, pc, mspBuf, server, cur, out, answers, esc, gaveUp, late,
                   served, queued, inTouch, unheard>>

\* A request is in work, or done and what has arrived meanwhile not yet looked at.
AtWork == pc = "work" \/ out # <<>>

\* The client runs out of patience.  It cannot know where its request is: the copy may
\* come before the request is read, or when its answer is on its way.
Retry ==
    /\ want # NoFrame /\ Send([want EXCEPT !.no = sends + 1])
    /\ late' = IF AtWork THEN late ELSE late \cup {sends + 1}
    /\ UNCHANGED <<inFourway, pc, mspBuf, server, cur, out, answers, want, req, esc,
                   gaveUp, served, queued, inTouch, unheard>>

\* Bound: one request is given up.
GiveUp ==
    /\ want # NoFrame /\ ~gaveUp /\ want' = NoFrame /\ gaveUp' = TRUE
    /\ UNCHANGED <<inFourway, pc, mspBuf, server, cur, out, link, answers, req, sends,
                   late, esc, served, queued, owed, inTouch, unheard>>

Receive ==
    /\ want # NoFrame /\ answers # <<>>
    /\ answers' = Tail(answers) /\ want' = NoFrame
    /\ UNCHANGED <<inFourway, pc, mspBuf, server, cur, out, link, req, sends, esc,
                   gaveUp, late, served, queued, owed, inTouch, unheard>>

-----------------------------------------------------------------------------
(* MSP. *)

ReadChunk ==
    /\ pc = "read" /\ link # <<>> /\ link' = <<>>
    /\ \/ /\ inFourway /\ buf' = buf \o link /\ pc' = "feed" /\ UNCHANGED mspBuf
       \/ /\ ~inFourway /\ mspBuf' = link /\ pc' = "msp" /\ UNCHANGED buf
    /\ UNCHANGED <<inFourway, lastRequest, target, connected, exited, cur, out, answers,
                   client, esc, served, queued, owed, inTouch, unheard>>

\* Bytes that are not an MSP frame are skipped.
SkipInMsp ==
    /\ pc = "msp" /\ mspBuf # <<>> /\ FourwayKind(Head(mspBuf))
    /\ mspBuf' = Tail(mspBuf)
    /\ UNCHANGED <<inFourway, pc, server, cur, out, link, answers, client, esc, served,
                   queued, owed, inTouch, unheard>>

HandleMsp ==
    /\ pc = "msp" /\ mspBuf # <<>> /\ Head(mspBuf).kind = "msp"
    /\ mspBuf' = Tail(mspBuf)
    /\ answers' = Append(answers, Head(mspBuf).req)
    /\ UNCHANGED <<inFourway, pc, server, cur, out, link, client, esc, served, queued, owed,
                   inTouch, unheard>>

\* MSP_SET_PASSTHROUGH: begin forgets the last session, and what else has been
\* read already belongs to the 4-way side.
HandlePassthrough ==
    /\ pc = "msp" /\ mspBuf # <<>> /\ Head(mspBuf).kind = "pass"
    /\ inFourway' = TRUE /\ mspBuf' = <<>>
    /\ buf' = Tail(mspBuf) /\ pc' = IF Tail(mspBuf) = <<>> THEN "read" ELSE "feed"
    /\ lastRequest' = 0 /\ target' = 0 /\ connected' = {} /\ exited' = FALSE
    /\ answers' = Append(answers, Head(mspBuf).req)
    /\ inTouch' = {} /\ unheard' = {}
    /\ owed' = Unanswered(ToSet(Tail(mspBuf) \o link))
    /\ UNCHANGED <<cur, out, link, client, esc, served, queued>>

MspDone ==
    /\ pc = "msp" /\ mspBuf = <<>> /\ pc' = "read"
    /\ UNCHANGED <<inFourway, mspBuf, server, cur, out, link, answers, client, esc,
                   served, queued, owed, inTouch, unheard>>

-----------------------------------------------------------------------------
(* feed: one frame after the other until there is none, or the client has   *)
(* left the interface.                                                      *)

\* Bytes before a 4-way frame are dropped.
SkipInFourway ==
    /\ pc = "feed" /\ buf # <<>> /\ ~FourwayKind(Head(buf)) /\ buf' = Tail(buf)
    /\ UNCHANGED <<inFourway, pc, mspBuf, lastRequest, target, connected, exited, cur,
                   out, link, answers, client, esc, served, queued, owed, inTouch, unheard>>

TakeFrame ==
    /\ pc = "feed" /\ buf # <<>> /\ FourwayKind(Head(buf))
    /\ buf' = Tail(buf) /\ cur' = Head(buf) /\ lastRequest' = Head(buf).req
    /\ pc' = "work"
    /\ UNCHANGED <<inFourway, mspBuf, target, connected, exited, out, link, answers,
                   client, esc, served, queued, owed, inTouch, unheard>>

NoMoreFrames ==
    /\ pc = "feed" /\ buf = <<>> /\ pc' = "answer"
    /\ UNCHANGED <<inFourway, mspBuf, server, cur, out, link, answers, client, esc,
                   served, queued, owed, inTouch, unheard>>

\* The copies of a request that were sent while the thread had it in work.
Repeats(frames, r) == {f \in ToSet(frames) : f.req = r /\ f.no \notin late}

\* The end of every request: its answer is collected, and feed goes on unless
\* the interface was left.
Replies(left) ==
    /\ pc = "work" /\ out' = Append(out, cur) /\ cur' = NoFrame
    /\ pc' = IF exited \/ left THEN "answer" ELSE "feed"
    /\ queued' = queued \cup {CopyOf(f) : f \in Repeats(buf \o link, cur.req)}
    /\ UNCHANGED <<inFourway, mspBuf, buf, lastRequest, link, answers, client, served, owed>>

Info == /\ cur.kind = "info" /\ Replies(FALSE)
        /\ UNCHANGED <<target, connected, exited, esc, inTouch, unheard>>

\* _connect.  An ESC in its application is reset into the bootloader first; it
\* may come up after the last probe.
InitFlash ==
    /\ cur.kind = "init" /\ Replies(FALSE) /\ target' = cur.esc
    /\ \/ /\ esc' = [esc EXCEPT ![cur.esc] = "boot"]
          /\ connected' = connected \cup {cur.esc}
          /\ inTouch' = inTouch \cup {cur.esc}
       \/ /\ esc' \in {esc, [esc EXCEPT ![cur.esc] = "boot"]}
          /\ inTouch' = inTouch \ {cur.esc} /\ UNCHANGED connected
    /\ UNCHANGED <<exited, unheard>>

\* Mutant: a keep alive that succeeds connects the target.
TestAliveConnects ==
    /\ cur.kind = "alive" /\ Replies(FALSE)
    /\ \/ /\ target \in connected => esc[target] = "boot"
          /\ inTouch' = inTouch \cup ({target} \cap connected)
          /\ connected' = connected \cup {target}
       \/ /\ target \in connected /\ connected' = connected \ {target}
          /\ inTouch' = inTouch \ {target}
    /\ UNCHANGED <<target, exited, esc, unheard>>

\* Without an ESC there is nothing to keep alive; one that does not answer is
\* no longer connected.
TestAlive ==
    /\ cur.kind = "alive" /\ Replies(FALSE)
    /\ \/ /\ target \in connected => esc[target] = "boot"
          /\ inTouch' = inTouch \cup ({target} \cap connected) /\ UNCHANGED connected
       \/ /\ target \in connected /\ connected' = connected \ {target}
          /\ inTouch' = inTouch \ {target}
    /\ UNCHANGED <<target, exited, esc, unheard>>

\* Reads, writes and erases, each tried twice at most.  Their failure leaves the
\* ESC connected.
Data ==
    /\ cur.kind = "data" /\ Replies(FALSE)
    /\ \/ target \in connected /\ esc[target] = "boot" /\ inTouch' = inTouch \cup {target}
       \/ inTouch' = inTouch \ {target}
    /\ UNCHANGED <<target, connected, exited, esc, unheard>>

\* RUN is not answered; a bootloader that hears it starts the application.
DeviceReset ==
    /\ cur.kind = "reset" /\ Replies(FALSE)
    /\ connected' = connected \ {cur.esc} /\ inTouch' = inTouch \ {cur.esc}
    /\ esc' \in {esc, [esc EXCEPT ![cur.esc] = "app"]}
    /\ UNCHANGED <<target, exited, unheard>>

\* Mutant: only the selected ESC is released.
InterfaceExitSelected ==
    /\ cur.kind = "exit" /\ exited' = TRUE /\ Replies(TRUE) /\ connected' = {}
    /\ \E lost \in SUBSET ({target} \cap connected) :
        /\ esc' = [e \in Escs |-> IF e = target /\ e \in connected \ lost THEN "app" ELSE esc[e]]
        /\ unheard' = unheard \cup lost
    /\ UNCHANGED <<target, inTouch>>

\* cmd_InterfaceExit: RUN goes once to every ESC that is connected; nothing answers it,
\* and the wire may lose any of them.
InterfaceExit ==
    /\ cur.kind = "exit" /\ exited' = TRUE /\ Replies(TRUE) /\ connected' = {}
    /\ \E lost \in SUBSET connected :
        /\ esc' = [e \in Escs |-> IF e \in connected \ lost THEN "app" ELSE esc[e]]
        /\ unheard' = unheard \cup lost
    /\ UNCHANGED <<target, inTouch>>

-----------------------------------------------------------------------------
(* _fourway: what to do with the answers. *)

\* Mutant: nothing is dropped.
CopiesKept(frames) == 0

\* The copies at the head of what has arrived meanwhile.
Copies(frames) ==
    LET differs == {i \in DOMAIN frames : frames[i].req # lastRequest}
    IN  IF differs = {} THEN Len(frames) ELSE (CHOOSE i \in differs :
            \A j \in differs : i <= j) - 1

Requests(frames) == [i \in DOMAIN frames |-> frames[i].req]

\* Mutant: everything that has arrived meanwhile is dropped.
WriteAnswersDropsAll ==
    /\ pc = "answer" /\ out # <<>> /\ pc' = "leave"
    /\ link' = <<>> /\ out' = <<>> /\ answers' = answers \o Requests(out)
    /\ served' = served \cup {CopyOf(f) : f \in ToSet(out)}
    /\ owed' = owed \ ToSet(Requests(out))
    /\ UNCHANGED <<inFourway, mspBuf, buf, lastRequest, target, connected, exited, cur,
                   client, esc, queued, inTouch, unheard>>

\* Copies of the request just answered that have arrived meanwhile are dropped;
\* what else has arrived is worked on before the next read.
WriteAnswers ==
    /\ pc = "answer" /\ out # <<>>
    /\ LET pending == SubSeq(link, Copies(link) + 1, Len(link))
       IN  /\ buf' = buf \o pending
           /\ pc' = IF pending = <<>> THEN "leave" ELSE "feed"
    /\ link' = <<>> /\ out' = <<>> /\ answers' = answers \o Requests(out)
    /\ served' = served \cup {CopyOf(f) : f \in ToSet(out)}
    /\ owed' = owed \ ToSet(Requests(out))
    /\ UNCHANGED <<inFourway, mspBuf, lastRequest, target, connected, exited, cur, client,
                   esc, queued, inTouch, unheard>>

NoAnswers ==
    /\ pc = "answer" /\ out = <<>> /\ pc' = "leave"
    /\ UNCHANGED <<inFourway, mspBuf, server, cur, out, link, answers, client, esc,
                   served, queued, owed, inTouch, unheard>>

Leave ==
    /\ pc = "leave" /\ pc' = "read" /\ inFourway' = (inFourway /\ ~exited)
    /\ UNCHANGED <<mspBuf, server, cur, out, link, answers, client, esc, served, queued, owed,
                   inTouch, unheard>>

ServerStep ==
    \/ ReadChunk \/ SkipInMsp \/ HandleMsp \/ HandlePassthrough \/ MspDone
    \/ SkipInFourway \/ TakeFrame \/ NoMoreFrames
    \/ Info \/ InitFlash \/ TestAlive \/ Data \/ DeviceReset \/ InterfaceExit
    \/ WriteAnswers \/ NoAnswers \/ Leave

Next == ServerStep \/ Ask \/ Retry \/ GiveUp \/ Receive

Spec == Init /\ [][Next]_vars

\* The MSP thread runs; a client that waits reads what it is sent.
Fair == WF_vars(ServerStep) /\ WF_vars(Receive)

-----------------------------------------------------------------------------
TypeOK ==
    /\ inFourway \in BOOLEAN
    /\ pc \in {"read", "msp", "feed", "work", "answer", "leave"}
    /\ mspBuf \in Seq(Frame) /\ buf \in Seq(Frame) /\ link \in Seq(Frame)
    /\ cur \in Frame \cup {NoFrame} /\ out \in Seq(Frame) /\ want \in Frame \cup {NoFrame}
    /\ target \in Escs \cup {0} /\ connected \subseteq Escs /\ inTouch \subseteq Escs
    /\ exited \in BOOLEAN /\ esc \in [Escs -> {"app", "boot"}]
    /\ late \subseteq 1..MaxSends /\ unheard \subseteq Escs

\* The client has given up nothing, and has repeated requests only while the thread
\* had one in work.
InTime == ~gaveUp /\ late = {}

\* A client that waits for its answers reads the answer of the request it waits for,
\* however often it repeats a request that is in work: none of those copies is answered,
\* which would shift the answers that follow (the comment at msp_stub_fc.py:693).  A
\* copy that comes before or after that, when the answer is already on its way, is a
\* request of its own for the code; of a client that sent one nothing is promised.
InStep == InTime /\ want # NoFrame /\ answers # <<>> => Head(answers) = want.req

\* What the comment in _fourway says of every client: retries that queued up while
\* a request was worked on - its own or the one given up for it - are not answered.
RetriesAnsweredOnce == served \cap queued = {}

\* When the 4-way interface has been left, every ESC whose bootloader answered last -
\* also one that is not the selected one - has been sent RUN: it runs its application,
\* or the wire lost that frame.
ExitReleases ==
    [][Leave /\ exited /\ InTime => \A e \in inTouch \ unheard : esc[e] = "app"]_vars

\* A 4-way request that reaches the link in a session is answered, or the session
\* ends: none is owed an answer for ever, nor is the next request of a client that has
\* given one up.
GetsAnswer == \A r \in 1..MaxSends : []<>(inFourway /\ ~exited => r \notin owed)
=============================================================================
