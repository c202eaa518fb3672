------------------------------- MODULE Remote -------------------------------
(***************************************************************************)
(* Remote control: the Duo processes of a machine (internal/remote,        *)
(* cmd/duo/remote.go), the relay room they share (remote/src/room.js) and  *)
(* the page a phone runs (remote/public).                                  *)
(*                                                                         *)
(* A client, process or page, talks to the relay over a connection that    *)
(* delivers in order until it breaks and loses what is on its way; a frame *)
(* for the relay is handled when it is written, or lost.  What a session   *)
(* shows is a version number.  Encryption, budgets, rate limits and        *)
(* PublishEvent are left out.                                              *)
(***************************************************************************)
EXTENDS Integers, Sequences, SequencesExt, FiniteSets

CONSTANTS
  Procs,           \* the Duo processes that use this pairing
  Guests,          \* the phones
  Cmds,            \* the command ids the phones may draw
  Window,          \* nonces a process accepts: 8 in the code
  KeepSeen,        \* when markSeen starts afresh: over 256 ids in the code
  KeepEnvelopes,   \* envelopes the relay replays: 50 in the code
  AuthRetries,     \* hellos a page repeats after "auth": 5 in the code
  InOrder,         \* the browser finishes decryptions in the order they began
  Setups           \* see MCRemote

ASSUME RemoteAssumption ==
  /\ Procs \cap Guests = {} /\ IsFiniteSet(Guests) /\ "none" \notin Cmds
  /\ \A s \in Setups : s.keepCommands \in Nat
  /\ KeepSeen \in Nat
  /\ Window \in Nat \ {0} /\ KeepEnvelopes \in Nat \ {0}
  /\ AuthRetries \in Nat /\ InOrder \in BOOLEAN

VARIABLES
  setup,     \* the bounds of this behaviour
  count,     \* what has happened so far, against them
  session,   \* version of what Snapshot returns, per process
  host,      \* remote.Client, per process
  writers,   \* its pushStates goroutines, by the connection that started them
  jobs,      \* the commands its read loops check or are inside the Sink for
  relay,     \* the room row, its sequence number, envelopes and command ids
  sock,      \* the relay's sockets, by the client at the other end
  link,      \* the client's connection is not known to be broken
  down,      \* frames on their way from the relay
  page,      \* what app.js keeps, per phone
  ran,       \* ghost: the processes that executed a command
  told       \* ghost: what the phone said of a command, and whom it was for

hostVars == <<session, host, writers, jobs>>
netVars == <<sock, link, down>>
vars == <<setup, count, hostVars, relay, netVars, page, ran, told>>

Clients == Procs \cup Guests
NoState == [v |-> -1]
NoCmd == [id |-> "none"]

Spend(what) == /\ count[what] < setup[what]
               /\ count' = [count EXCEPT ![what] = @ + 1]

-----------------------------------------------------------------------------
(* The network.                                                             *)

\* The relay sends Frames(c) to each of its sockets in cs.
Sent(dn, cs, Frames(_)) ==
  [c \in Clients |-> IF c \in cs /\ link[c] THEN dn[c] \o Frames(c) ELSE dn[c]]

Authed(sk) == {c \in Clients : sk[c] \in {"host", "guest"}}

\* sendPresence.
Presence(dn, sk) ==
  LET Frame(c) == <<[t |-> "presence", host |-> \E p \in Procs : sk[p] = "host",
                     guests |-> Cardinality({g \in Guests : sk[g] = "guest"})]>>
  IN  Sent(dn, Authed(sk), Frame)

ErrorFrame(code) == [t |-> "error", code |-> code]
ByeFrame(code) == [t |-> "bye", code |-> code]

\* A connection breaks: what is on its way is lost, and each end finds out later.
Break(c) ==
  /\ link[c]
  /\ Spend(IF c \in Procs THEN "hostBreaks" ELSE "pageBreaks")
  /\ link' = [link EXCEPT ![c] = FALSE]
  /\ down' = [down EXCEPT ![c] = <<>>]
  /\ UNCHANGED <<setup, hostVars, relay, sock, page, ran, told>>

\* The client's end sees that the relay closed: every frame before it was read.
Closed(c) == ~link[c] \/ (sock[c] = "none" /\ down[c] = <<>>)

\* The client closes its end.
HangUp(c) ==
  /\ link' = [link EXCEPT ![c] = FALSE]
  /\ down' = [down EXCEPT ![c] = <<>>]
  /\ UNCHANGED sock

\* webSocketClose.
RelaySeesClose(c) ==
  /\ ~link[c] /\ sock[c] # "none"
  /\ sock' = [sock EXCEPT ![c] = "none"]
  /\ down' = Presence(down, sock')
  /\ UNCHANGED <<setup, count, hostVars, relay, link, page, ran, told>>

\* DialContext and upgrade; the relay has noticed the end of c's last socket.
Dialled(c) ==
  /\ sock[c] = "none"
  /\ sock' = [sock EXCEPT ![c] = "open"]
  /\ link' = [link EXCEPT ![c] = TRUE]
  /\ down' = [down EXCEPT ![c] = <<>>]

-----------------------------------------------------------------------------
(* The relay.                                                               *)

\* reject: the frame is answered and the socket closed.
Reject(c, code) ==
  /\ down' = [down EXCEPT ![c] = Append(@, ErrorFrame(code))]
  /\ sock' = [sock EXCEPT ![c] = "none"]
  /\ UNCHANGED relay

\* The host sockets a new host ends.
Taken(c) == IF c \in Procs THEN {p \in Procs \ {c} : sock[p] = "host"} ELSE {}

\* The envelopes after since, which are kept in the order of their numbers.  The process
\* does nothing with a replayed frame, so only a page's replay is kept.
Replayed(c, since) ==
  LET old == {i \in DOMAIN relay.envelopes : relay.envelopes[i].seq <= since}
  IN  IF c \in Procs THEN <<>>
      ELSE SubSeq(relay.envelopes, Cardinality(old) + 1, Len(relay.envelopes))

\* handleHello of a room that accepts it.
Welcome(c, since) ==
  LET Bye(o) == <<ByeFrame("replaced")>>
      Ready(o) == <<[t |-> "ready", seq |-> relay.seq]>> \o Replayed(c, since)
      ousted == [s \in Clients |-> IF s \in Taken(c) THEN "none" ELSE sock[s]]
  IN  /\ sock' = [ousted EXCEPT ![c] = IF c \in Procs THEN "host" ELSE "guest"]
      /\ down' = Presence(Sent(Sent(down, Taken(c), Bye), {c}, Ready), sock')
      /\ UNCHANGED relay

\* The first frame on a socket.
FirstFrame(c, f) ==
  IF f.t # "hello" \/ relay.row \in {"none", "revoked"} THEN Reject(c, "auth")
  ELSE IF relay.row = "expired" THEN Reject(c, "expired")
  ELSE Welcome(c, f.since)

LastOf(s, n) == SubSeq(s, IF Len(s) > n THEN Len(s) - n + 1 ELSE 1, Len(s))

\* handleEnvelope.
Envelope(p, f) ==
  LET Out(g) == <<f>>
  IN  IF f.t # "msg" \/ f.seq <= relay.seq
      THEN /\ down' = [down EXCEPT ![p] = Append(@, ErrorFrame("bad_frame"))]
           /\ UNCHANGED <<relay, sock>>
      ELSE /\ relay' = [relay EXCEPT !.seq = f.seq,
                                     !.envelopes = LastOf(Append(@, f), KeepEnvelopes)]
           /\ down' = Sent(down, {g \in Guests : sock[g] = "guest"}, Out)
           /\ UNCHANGED sock

\* Mutant: an id that was already forwarded is forwarded again.
ForwardedNever(id) == FALSE

Forwarded(id) == Contains(relay.commands, id)

\* The last ids are kept; forgotten is a ghost, the ids that fell out.
Remembered(id) ==
  LET all == Append(relay.commands, id)
      kept == LastOf(all, setup.keepCommands)
  IN  [relay EXCEPT !.commands = kept, !.forgotten = @ \cup (ToSet(all) \ ToSet(kept))]

\* handleCommand; an id that no host could take is not recorded.
Relayed(g, f) ==
  LET hosts == {p \in Procs : sock[p] = "host"}
      Out(p) == <<f>>
  IN  IF Forwarded(f.id) THEN UNCHANGED <<relay, down, sock>>
      ELSE IF hosts = {}
      THEN /\ down' = [down EXCEPT ![g] = Append(@, ErrorFrame("offline"))]
           /\ UNCHANGED <<relay, sock>>
      ELSE /\ relay' = Remembered(f.id)
           /\ down' = Sent(down, hosts, Out)
           /\ UNCHANGED sock

\* webSocketMessage: c writes a frame, which is lost if the connection is gone.
Write(c, f) ==
  IF ~link[c] \/ sock[c] = "none" THEN UNCHANGED <<relay, sock, down>>
  ELSE IF sock[c] = "open" THEN FirstFrame(c, f)
  ELSE IF sock[c] = "host" THEN Envelope(c, f)
  ELSE Relayed(c, f)

\* closeAll, after alarm or revoke has ended the room.
RoomEnds(row) ==
  /\ relay' = [relay EXCEPT !.row = row, !.envelopes = <<>>, !.commands = <<>>]
  /\ sock' = [c \in Clients |-> "none"]

ByeAll(dn, row) ==
  LET Bye(c) == <<ByeFrame(row)>>
  IN  Sent(dn, {c \in Clients : sock[c] # "none"}, Bye)

Expire ==
  /\ relay.row = "live"
  /\ Spend("ends")
  /\ RoomEnds("expired")
  /\ down' = ByeAll(down, "expired")
  /\ UNCHANGED <<setup, hostVars, link, page, ran, told>>

-----------------------------------------------------------------------------
(* A Duo process.                                                           *)

\* New: nothing issued, nothing seen; forgotten is a ghost, the ids that were once seen.
NewClient == [st |-> "off", seq |-> 0, nonce |-> 0, window |-> <<>>, seen |-> {},
              forgotten |-> {}, last |-> NoCmd, guests |-> 0, dirty |-> FALSE, gen |-> 0]

NewWriter == [pending |-> FALSE, snap |-> NoState]

Connected(p) == host[p].st \in {"attached", "hello", "ready", "serving"}

\* Resume: the pairing on disk is served by a client of this process.
StartClient(p) ==
  /\ host[p].st = "off"
  /\ Spend("starts")
  /\ host' = [host EXCEPT ![p].st = "idle"]
  /\ UNCHANGED <<setup, session, writers, jobs, relay, netVars, page, ran, told>>

\* register, at the start of connectAndServe, ends the client when the room is revoked
\* or the pairing expired; then DialContext and attach: from here on every writer of p
\* writes to this connection.
Dial(p) ==
  /\ host[p].st = "idle"
  /\ IF relay.row \in {"revoked", "expired"}
     THEN /\ host' = [host EXCEPT ![p].st = "stopped"]
          /\ UNCHANGED <<relay, netVars>>
     ELSE /\ relay' = [relay EXCEPT !.row = "live"]
          /\ Dialled(p)
          /\ host' = [host EXCEPT ![p].st = "attached"]
  /\ UNCHANGED <<setup, count, session, writers, jobs, page, ran, told>>

Hello(p) ==
  /\ host[p].st = "attached"
  /\ Write(p, [t |-> "hello", since |-> host[p].seq])
  /\ host' = [host EXCEPT ![p].st = "hello"]
  /\ UNCHANGED <<setup, count, session, writers, jobs, link, page, ran, told>>

\* sendState up to the sealing: snapshot, nonce and the answer to the last command.
Nonce(p) == [p |-> p, k |-> host[p].nonce + 1]
Snapshot(p) == [p |-> p, v |-> session[p], n |-> Nonce(p), answer |-> host[p].last]

\* issueNonce.
Issued(h, p) == [h EXCEPT !.nonce = @ + 1, !.window = LastOf(Append(@, Nonce(p)), Window)]

\* The answer to hello: ready continues the relay's sequence and a first state is
\* sealed for the connection's own writer; an error ends the client.
HelloAnswered(p) ==
  /\ host[p].st = "hello" /\ down[p] # <<>>
  /\ LET f == down[p][1]
         h == host[p]
         greeted == [h EXCEPT !.st = "ready", !.gen = h.gen + 1,
                              !.seq = IF f.seq > h.seq THEN f.seq ELSE h.seq]
     IN  IF f.t = "ready"
         THEN /\ host' = [host EXCEPT ![p] = Issued(greeted, p)]
              /\ writers' = [writers EXCEPT ![p] =
                               Append(@, [NewWriter EXCEPT !.snap = Snapshot(p)])]
              /\ down' = [down EXCEPT ![p] = Tail(@)]
              /\ UNCHANGED <<sock, link>>
         ELSE /\ host' = [host EXCEPT ![p].st = IF f.t = "error" THEN "stopped" ELSE "idle"]
              /\ HangUp(p)
              /\ UNCHANGED writers
  /\ UNCHANGED <<setup, count, session, jobs, relay, page, ran, told>>

\* The current connection is over and Run goes back to register.  The writers it
\* started are not told.
Reconnect(p) ==
  /\ Connected(p) /\ Closed(p)
  /\ host' = [host EXCEPT ![p].st = "idle"]
  /\ writers' = IF host[p].st = "ready" THEN [writers EXCEPT ![p] = Front(@)] ELSE writers
  /\ HangUp(p)
  /\ UNCHANGED <<setup, count, session, jobs, relay, page, ran, told>>

\* PublishState: with nobody attached there is nobody to send to.
Published(h) == [h EXCEPT !.dirty = @ \/ h.guests > 0]

\* Mutant: a phone that joins is not given a state.
JoinedSilent(h, guests) == [h EXCEPT !.guests = guests]

\* A presence frame: a phone that joins is given the current state.
Joined(h, guests) ==
  LET g == [h EXCEPT !.guests = guests]
  IN  IF guests > h.guests THEN Published(g) ELSE g

NonceValid(h, n) == Contains(h.window, n)

Seen(h, id) == id \in h.seen

\* Mutant: markSeen does not keep the id.
MarkedNot(h, id) == h

\* markSeen of a new id; a full memory is dropped first.
Marked(h, id) ==
  LET dropped == IF Cardinality(h.seen) > KeepSeen THEN h.seen ELSE {}
  IN  [h EXCEPT !.seen = (@ \ dropped) \cup {id}, !.forgotten = @ \cup dropped]

Answered(h, id, ok) == [h EXCEPT !.last = [id |-> id, ok |-> ok]]

\* applyCommand up to its checks: the answer is on record before it is known.
Applying(p, f) ==
  /\ host' = [host EXCEPT ![p] = Answered(@, f.id, TRUE)]
  /\ jobs' = [jobs EXCEPT ![p] = @ \cup {[gen |-> host[p].gen, id |-> f.id, n |-> f.n,
                                          st |-> "checking"]}]

Terminal == {"auth", "expired", "room_full"}

\* readLoop; it reads nothing while a command of its own is under way.
ReadFrame(p) ==
  /\ host[p].st = "serving" /\ down[p] # <<>>
  /\ \A j \in jobs[p] : j.gen # host[p].gen
  /\ LET f == down[p][1]
         ends == f.t = "bye" \/ (f.t = "error" /\ f.code \in Terminal)
     IN  IF ends
         THEN /\ host' = [host EXCEPT ![p].st = "stopped"]
              /\ HangUp(p)
              /\ UNCHANGED jobs
         ELSE /\ down' = [down EXCEPT ![p] = Tail(@)]
              /\ IF f.t = "cmd" THEN Applying(p, f)
                 ELSE /\ host' = IF f.t = "presence"
                                 THEN [host EXCEPT ![p] = Joined(@, f.guests)] ELSE host
                      /\ UNCHANGED jobs
              /\ UNCHANGED <<sock, link>>
  /\ UNCHANGED <<setup, count, session, writers, relay, page, ran, told>>

\* applyCommand refuses the command, or takes it to the Sink.
Refused(p, j) ==
  /\ jobs' = [jobs EXCEPT ![p] = @ \ {j}]
  /\ host' = [host EXCEPT ![p] = Published(Answered(@, j.id, FALSE))]

Begun(p, j) ==
  /\ jobs' = [jobs EXCEPT ![p] = (@ \ {j}) \cup {[j EXCEPT !.st = "sink"]}]
  /\ host' = [host EXCEPT ![p] = Marked(@, j.id)]

Checked(p, j) ==
  /\ j.st = "checking"
  /\ IF ~NonceValid(host[p], j.n) \/ Seen(host[p], j.id) THEN Refused(p, j) ELSE Begun(p, j)
  /\ UNCHANGED <<setup, count, session, writers, relay, netVars, page, ran, told>>

Checks(p) == \E j \in jobs[p] : Checked(p, j)

\* The Sink returns; a command it took has changed the session.
Applied(p, j, ok) ==
  /\ j.st = "sink"
  /\ jobs' = [jobs EXCEPT ![p] = @ \ {j}]
  /\ host' = [host EXCEPT ![p] = Published(IF ok THEN @ ELSE Answered(@, j.id, FALSE))]
  /\ session' = IF ok THEN [session EXCEPT ![p] = @ + 1] ELSE session
  /\ ran' = IF ok THEN [ran EXCEPT ![j.id] = Append(@, p)] ELSE ran
  /\ UNCHANGED <<setup, count, writers, relay, netVars, page, told>>

SinkReturns(p) == \E j \in jobs[p], ok \in BOOLEAN : Applied(p, j, ok)

\* watch: a session event republishes the snapshot.
Change(p) ==
  /\ Spend("changes")
  /\ host[p].st # "off"
  /\ session' = [session EXCEPT ![p] = @ + 1]
  /\ host' = [host EXCEPT ![p] = Published(@)]
  /\ UNCHANGED <<setup, writers, jobs, relay, netVars, page, ran, told>>

\* The first state is sent before the connection's own writer starts.
Started(p, i) == host[p].st # "ready" \/ i < Len(writers[p])

\* pushStates takes the request to publish...
WriterWakes(p, i) ==
  /\ host[p].dirty /\ Started(p, i)
  /\ host' = [host EXCEPT ![p].dirty = FALSE]
  /\ writers' = [writers EXCEPT ![p][i].pending = TRUE]
  /\ UNCHANGED <<setup, count, session, jobs, relay, netVars, page, ran, told>>

\* ... seals a state at its next tick...
WriterSeals(p, i) ==
  /\ writers[p][i].pending /\ writers[p][i].snap = NoState
  /\ writers' = [writers EXCEPT ![p][i] = [pending |-> FALSE, snap |-> Snapshot(p)]]
  /\ host' = [host EXCEPT ![p] = Issued(@, p)]
  /\ UNCHANGED <<setup, count, session, jobs, relay, netVars, page, ran, told>>

\* ... and writes it to whatever connection there is by then (sendMessage).  A
\* write without a connection ends the writer.
WriterSends(p, i) ==
  /\ writers[p][i].snap # NoState
  /\ IF Connected(p)
     THEN /\ Write(p, [t |-> "msg", seq |-> host[p].seq + 1, state |-> writers[p][i].snap])
          /\ host' = [host EXCEPT ![p].seq = @ + 1,
                        ![p].st = IF @ = "ready" /\ i = Len(writers[p]) THEN "serving" ELSE @]
          /\ writers' = [writers EXCEPT ![p][i].snap = NoState]
     ELSE /\ writers' = [writers EXCEPT ![p] = RemoveAt(@, i)]
          /\ UNCHANGED <<host, relay, sock, down>>
  /\ UNCHANGED <<setup, count, session, jobs, link, page, ran, told>>

WriterStep(p) ==
  \E i \in DOMAIN writers[p] : WriterWakes(p, i) \/ WriterSeals(p, i) \/ WriterSends(p, i)

\* stopClient and Close, when Duo quits or /remote off has been asked.
Stopped(p) ==
  /\ host' = [host EXCEPT ![p].st = "closed", ![p].dirty = FALSE]
  /\ writers' = [writers EXCEPT ![p] = <<>>]

Quit(p) ==
  /\ Spend("quits")
  /\ host[p].st \notin {"off", "closed"}
  /\ Stopped(p)
  /\ HangUp(p)
  /\ UNCHANGED <<setup, session, jobs, relay, page, ran, told>>

\* Stop: the room is revoked, if the relay can be reached, and the client closed.
Off(p, reached) ==
  /\ Spend("ends")
  /\ host[p].st \notin {"off", "closed"}
  /\ Stopped(p)
  /\ link' = [link EXCEPT ![p] = FALSE]
  /\ IF reached /\ relay.row = "live"
     THEN /\ RoomEnds("revoked")
          /\ down' = [ByeAll(down, "revoked") EXCEPT ![p] = <<>>]
     ELSE /\ down' = [down EXCEPT ![p] = <<>>]
          /\ UNCHANGED <<relay, sock>>
  /\ UNCHANGED <<setup, session, jobs, page, ran, told>>

HostStep(p) ==
  \/ Dial(p) \/ Hello(p) \/ HelloAnswered(p) \/ Reconnect(p)
  \/ ReadFrame(p) \/ Checks(p) \/ SinkReturns(p) \/ WriterStep(p)

-----------------------------------------------------------------------------
(* The phone.                                                               *)

NewPage == [st |-> "waiting", seq |-> 0, model |-> NoState, host |-> FALSE, pending |-> NoCmd,
            retries |-> 0, promised |-> FALSE]

\* What the page tells its human of the command in flight.
Settled(pg, word) ==
  /\ told' = [told EXCEPT ![pg.pending.id].word = word]

\* connect.
Connect(g) ==
  /\ page[g].st = "waiting"
  /\ Dialled(g)
  /\ page' = [page EXCEPT ![g].st = "hello"]
  /\ UNCHANGED <<setup, count, hostVars, relay, ran, told>>

\* onopen: hello, and the command in flight once more.
Opens(g) ==
  /\ page[g].st = "hello"
  /\ Write(g, [t |-> "hello", since |-> page[g].seq])
  /\ page' = [page EXCEPT ![g].st = IF page[g].pending = NoCmd THEN "open" ELSE "resend",
                          ![g].promised = FALSE]
  /\ UNCHANGED <<setup, count, hostVars, link, ran, told>>

Resends(g) ==
  /\ page[g].st = "resend"
  /\ IF page[g].pending = NoCmd THEN UNCHANGED <<relay, sock, down>>
     ELSE Write(g, page[g].pending)
  /\ page' = [page EXCEPT ![g].st = "open"]
  /\ UNCHANGED <<setup, count, hostVars, link, ran, told>>

\* onclose and scheduleReconnect.
PageCloses(g) ==
  /\ page[g].st # "waiting" /\ page[g].st # "fatal" /\ Closed(g)
  /\ page' = [page EXCEPT ![g].st = "waiting", ![g].host = FALSE]
  /\ HangUp(g)
  /\ UNCHANGED <<setup, count, hostVars, relay, ran, told>>

\* settlePending on a state: the host answered, or another session speaks.
Word(pg, s) ==
  IF s.answer.id = pg.pending.id THEN IF s.answer.ok THEN "sent" ELSE "refused"
  ELSE IF s.p # pg.pending.n.p THEN "unconfirmed" ELSE "waiting"

\* handleEnvelope of a state.
Shown(g, f) ==
  LET pg == page[g]
      word == IF pg.pending = NoCmd THEN "waiting" ELSE Word(pg, f.state)
  IN  /\ page' = [page EXCEPT ![g].model = f.state, ![g].seq = f.seq,
                              ![g].pending = IF word = "waiting" THEN @ ELSE NoCmd]
      /\ IF word = "waiting" THEN UNCHANGED told ELSE Settled(pg, word)

\* handleFrame of the other frames.
Fails(f, pg) ==
  \/ f.t = "bye" /\ f.code # "replaced"
  \/ f.t = "error" /\ (f.code = "expired" \/ (f.code = "auth" /\ pg.retries = AuthRetries))

PageTakes(pg, f) ==
  CASE f.t = "ready" -> [pg EXCEPT !.seq = IF f.seq < 1 THEN @ ELSE f.seq, !.retries = 0]
    [] f.t = "presence" -> [pg EXCEPT !.host = f.host]
    [] f.t = "error" -> IF f.code = "auth" THEN [pg EXCEPT !.retries = @ + 1]
                        ELSE [pg EXCEPT !.promised = @ \/ f.code = "offline"]
    [] OTHER -> pg

\* Envelopes are decrypted side by side: any of those at the front may be done first.
Decrypted(g) ==
  {i \in DOMAIN down[g] : /\ \A k \in 1..i : down[g][k].t = "msg"
                          /\ InOrder => i = 1}

PageReads(g) ==
  /\ page[g].st = "open" /\ down[g] # <<>>
  /\ LET f == down[g][1]
     IN  IF f.t = "msg"
         THEN \E i \in Decrypted(g) : /\ Shown(g, down[g][i])
                                      /\ down' = [down EXCEPT ![g] = RemoveAt(@, i)]
                                      /\ UNCHANGED <<sock, link>>
         ELSE /\ UNCHANGED told
              /\ IF Fails(f, page[g])
                 THEN /\ page' = [page EXCEPT ![g].st = "fatal"]
                      /\ HangUp(g)
                 ELSE /\ page' = [page EXCEPT ![g] = PageTakes(@, f)]
                      /\ down' = [down EXCEPT ![g] = Tail(@)]
                      /\ UNCHANGED <<sock, link>>
  /\ UNCHANGED <<setup, count, hostVars, relay, ran>>

\* command: one in flight, built on the nonce of the state the human sees.
Command(g, id) ==
  /\ page[g].model # NoState /\ page[g].host /\ page[g].pending = NoCmd
  /\ Spend("commands")
  /\ told[id].word = "none"
  /\ LET cmd == [t |-> "cmd", id |-> id, n |-> page[g].model.n]
     IN  /\ page' = [page EXCEPT ![g].pending = cmd]
         /\ Write(g, cmd)
         /\ told' = [told EXCEPT ![id] = [word |-> "pending", to |-> page[g].model.p]]
  /\ UNCHANGED <<setup, hostVars, link, ran>>

\* The timer of the command in flight.
GivesUp(g) ==
  /\ page[g].pending # NoCmd
  /\ page' = [page EXCEPT ![g].pending = NoCmd, ![g].promised = FALSE]
  /\ Settled(page[g], "unconfirmed")
  /\ UNCHANGED <<setup, count, hostVars, relay, netVars, ran>>

PageStep(g) == Connect(g) \/ Opens(g) \/ Resends(g) \/ PageCloses(g) \/ PageReads(g)

-----------------------------------------------------------------------------
Init ==
  /\ setup \in Setups
  /\ count = [b \in DOMAIN setup \ {"keepCommands"} |-> 0]
  /\ session = [p \in Procs |-> 0]
  /\ host = [p \in Procs |-> NewClient]
  /\ writers = [p \in Procs |-> <<>>]
  /\ jobs = [p \in Procs |-> {}]
  /\ relay = [row |-> "none", seq |-> 0, envelopes |-> <<>>, commands |-> <<>>,
               forgotten |-> {}]
  /\ sock = [c \in Clients |-> "none"]
  /\ link = [c \in Clients |-> FALSE]
  /\ down = [c \in Clients |-> <<>>]
  /\ page = [g \in Guests |-> NewPage]
  /\ ran = [id \in Cmds |-> <<>>]
  /\ told = [id \in Cmds |-> [word |-> "none"]]

Next ==
  \/ \E c \in Clients : RelaySeesClose(c) \/ Break(c)
  \/ \E p \in Procs : \/ StartClient(p) \/ HostStep(p) \/ Change(p) \/ Quit(p)
                      \/ \E reached \in BOOLEAN : Off(p, reached)
  \/ \E g \in Guests : \/ PageStep(g) \/ GivesUp(g)
                       \/ \E id \in Cmds : Command(g, id)
  \/ Expire

Spec == Init /\ [][Next]_vars

\* Goroutines, the relay and the page's handlers run, the Sink has a deadline, and
\* backoffs end.  Nothing makes a connection break, a human act or a process start.
Fairness ==
  /\ \A c \in Clients : WF_vars(RelaySeesClose(c))
  /\ \A p \in Procs : /\ WF_vars(HostStep(p)) /\ WF_vars(WriterStep(p))
                       /\ WF_vars(Checks(p)) /\ WF_vars(SinkReturns(p))
  /\ \A g \in Guests : WF_vars(PageStep(g)) /\ WF_vars(GivesUp(g))

FairSpec == Spec /\ Fairness

-----------------------------------------------------------------------------
(* Properties.                                                              *)

Nonces == [p : Procs, k : Nat]
Answers == [id : Cmds, ok : BOOLEAN] \cup {NoCmd}
States == [p : Procs, v : Nat, n : Nonces, answer : Answers] \cup {NoState}

\* Each variable has the values the code gives it: a process accepts the nonces it
\* issued itself, and never more than its window of them.
TypeOK ==
  /\ setup \in Setups
  /\ \A p \in Procs :
       /\ session[p] \in Nat
       /\ host[p].st \in {"off", "idle", "attached", "hello", "ready", "serving",
                          "stopped", "closed"}
       /\ Len(host[p].window) <= Window
       /\ \A n \in ToSet(host[p].window) : n.p = p /\ n.k <= host[p].nonce
       /\ host[p].last \in Answers
       /\ \A w \in ToSet(writers[p]) : w.pending \in BOOLEAN /\ w.snap \in States
       /\ \A j \in jobs[p] : j.n \in Nonces /\ j.st \in {"checking", "sink"}
  /\ relay.row \in {"none", "live", "revoked", "expired"} /\ relay.seq \in Nat
  /\ Len(relay.envelopes) <= KeepEnvelopes
  /\ \A c \in Clients : sock[c] \in {"none", "open", IF c \in Procs THEN "host" ELSE "guest"}
  /\ \A g \in Guests : /\ page[g].st \in {"waiting", "hello", "resend", "open", "fatal"}
                       /\ page[g].model \in States

\* A command of a phone is executed only by the process whose state its human was
\* looking at, never by one that took the room over while the command was on its way; and
\* at most once, however often it is sent again after a broken connection: for a second
\* time the relay must have dropped its id, and markSeen of that process as well.
RunsOnceWhereAddressed ==
  TypeOK /\ \A id \in Cmds :
    /\ \A p \in ToSet(ran[id]) : p = told[id].to
    /\ Len(ran[id]) > 1 => id \in relay.forgotten \cap host[told[id].to].forgotten

\* As long as the relay remembers that it forwarded a command, one that the phone calls
\* refused has not run and is not running: sending it again is safe.
RefusedHasNotRun ==
  \A id \in Cmds \ relay.forgotten : told[id].word = "refused" =>
    ran[id] = <<>> /\ \A p \in Procs : \A j \in jobs[p] : j.id # id

Current(g) ==
  \E p \in Procs : /\ sock[p] = "host" /\ page[g].st = "open" /\ page[g].host
                  /\ page[g].model # NoState
                  /\ page[g].model.p = p /\ page[g].model.v = session[p]

Converged(g) ==
  \/ page[g].st = "fatal"
  \/ \A p \in Procs : host[p].st \in {"off", "stopped", "closed"}
  \/ Current(g)

\* Whatever breaks, and whichever process has the room in the end, a phone that is
\* still paired ends up showing the present state of a process that still serves,
\* provided that no writer outlives the connection that started it.
Converges ==
  [](\A p \in Procs : Len(writers[p]) <= 1) => \A g \in Guests : <>[]Converged(g)

\* Of applyCommand: a command that the session refused is visible on the phone, so what
\* the phone calls sent was taken or still is with the session.
SentMeansTaken ==
  \A id \in Cmds : told[id].word = "sent" =>
    ran[id] # <<>> \/ \E p \in Procs : \E j \in jobs[p] : j.id = id

\* Of Run: it keeps the room connected until it is cancelled or the relay
\* ends the room for good; what breaks in between is transient.
StopsOnlyWhenEnded ==
  Cardinality({p \in Procs : host[p].st # "off"}) = 1 /\ relay.row = "live" =>
    \A p \in Procs : host[p].st # "stopped"

\* Of PublishEvent: the phone always converges, also after a reconnect of the host.
AlwaysConverges == \A g \in Guests : <>[]Converged(g)

\* Of handleError: a command answered with "offline" will be sent again when Duo returns.
SentAgain ==
  [][\A g \in Guests :
       page[g].promised /\ page[g].host /\ page[g].pending # NoCmd /\ page'[g].pending = NoCmd
         => Forwarded(page[g].pending.id)]_vars
=============================================================================
