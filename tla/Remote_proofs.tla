---------------------------- MODULE Remote_proofs ----------------------------
(***************************************************************************)
(* For every value of the constants, and for any number of commands: a     *)
(* command runs only with the process whose state its human saw, and a     *)
(* second time only if the relay and that process have both dropped its    *)
(* id; and a command the phone calls refused has not run, while the relay  *)
(* remembers it.                                                           *)
(*                                                                         *)
(* There are two arguments for the first.  While the process has not       *)
(* dropped the id, it takes its own nonces only and refuses what it has    *)
(* begun (Work).  While the relay has not, it forwards the command once,   *)
(* and the command is in one place: on its way to a process, with the      *)
(* session, or run (Memory).  One that is at none of them and will be      *)
(* forwarded no more is Free, and only of those, and of what the relay     *)
(* forgot, does anybody ever read that they were refused (Honest), over    *)
(* all the copies of an answer: with the process, sealed, on its way, kept *)
(* by the relay, or on the page.                                           *)
(***************************************************************************)
EXTENDS Remote, FiniteSetTheorems, TLAPS

Codes == {"auth", "expired", "bad_frame", "offline", "replaced", "revoked"}
Words == {"pending", "sent", "refused", "unconfirmed"}
Rows == {"none", "live", "revoked", "expired"}
Ended == {"revoked", "expired"}

----------------------------------------------------------------------------
(***************************************************************************)
(* The shapes of the data.  o is what the phones were told of the commands *)
(* and d the commands that nobody will run any more.                       *)
(***************************************************************************)
Honest(a, d) == a # NoCmd /\ ~a.ok => a.id \in d

FullStates(d) ==
  {s \in [p : Procs, v : Nat, n : Nonces, answer : Answers] :
     s.n.p = s.p /\ Honest(s.answer, d)}

Snaps(d) == FullStates(d) \cup {NoState}

\* A command that a phone has sent, to the process it named.
CmdFrames(o) ==
  {f \in [t : {"cmd"}, id : Cmds, n : Nonces] :
     o[f.id].word # "none" /\ o[f.id].to = f.n.p}

MsgFrames(d) == [t : {"msg"}, seq : Nat, state : FullStates(d)]

Plain ==
  [t : {"presence"}, host : BOOLEAN, guests : Nat] \cup [t : {"ready"}, seq : Nat]
    \cup [t : {"error", "bye"}, code : Codes]

Frames(o, d) == Plain \cup CmdFrames(o) \cup MsgFrames(d)

Client ==
  [st : {"off", "idle", "attached", "hello", "ready", "serving", "stopped", "closed"},
   seq : Nat, nonce : Nat, window : Seq(Nonces), seen : SUBSET Cmds,
   forgotten : SUBSET Cmds, last : Answers, guests : Nat, dirty : BOOLEAN, gen : Nat]

Hosts(h, d) ==
  /\ h \in [Procs -> Client]
  /\ \A p \in Procs :
       /\ Honest(h[p].last, d)
       /\ Len(h[p].window) <= Window
       /\ \A i \in 1 .. Len(h[p].window) :
            h[p].window[i].p = p /\ h[p].window[i].k <= h[p].nonce

Writer(d) == [pending : BOOLEAN, snap : Snaps(d)]

Writers(w, d) == w \in [Procs -> Seq(Writer(d))]

Page(o, d) ==
  [st : {"waiting", "hello", "resend", "open", "fatal"}, seq : Nat, model : Snaps(d),
   host : BOOLEAN, pending : CmdFrames(o) \cup {NoCmd}, retries : Nat, promised : BOOLEAN]

Pages(pg, o, d) == pg \in [Guests -> Page(o, d)]

Telling(o, d) ==
  /\ o \in [Cmds -> [word : {"none"}] \cup [word : Words, to : Procs]]
  /\ \A id \in Cmds : o[id].word = "refused" => id \in d

RelayRow(d) ==
  [row : Rows, seq : Nat, envelopes : Seq(MsgFrames(d)), commands : Seq(Cmds),
   forgotten : SUBSET Cmds]

NetOK(r, s, dn, o, d) ==
  /\ r \in RelayRow(d)
  /\ Len(r.envelopes) <= KeepEnvelopes
  /\ s \in [Clients -> {"none", "open", "host", "guest"}]
  /\ \A c \in Clients : /\ s[c] = "host" => c \in Procs /\ r.row = "live"
                        /\ s[c] = "guest" => c \in Guests /\ r.row = "live"
  /\ \A c, e \in Clients : s[c] = "host" /\ s[e] = "host" => c = e
  /\ dn \in [Clients -> Seq(Frames(o, d))]

----------------------------------------------------------------------------
(***************************************************************************)
(* Where a command is.                                                     *)
(***************************************************************************)
IsCmd(f, id) == f.t = "cmd" /\ f.id = id

Has(s, id) == \E i \in 1 .. Len(s) : IsCmd(s[i], id)

Once(s, id) == \A i, j \in 1 .. Len(s) : IsCmd(s[i], id) /\ IsCmd(s[j], id) => i = j

\* t has no command that s has not.
Less(t, s) == \A id \in Cmds : (Has(t, id) => Has(s, id)) /\ (Once(s, id) => Once(t, id))

\* The relay forwards it no more.
Gone(r, id) == Contains(r.commands, id) \/ r.row \in Ended

\* A step of the network that brings no command to a process.
Quiet(r, q, dn, en) ==
  /\ \A p \in Procs : Less(en[p], dn[p])
  /\ \A id \in Cmds : Gone(r, id) => Gone(q, id)
  /\ q.forgotten = r.forgotten

----------------------------------------------------------------------------
(***************************************************************************)
(* Sequences of frames.                                                    *)
(***************************************************************************)
LEMMA LessSelf == ASSUME NEW s PROVE Less(s, s)
BY DEF Less

LEMMA LessEmpty == ASSUME NEW s PROVE Less(<<>>, s)
BY DEF Less, Has, Once

LEMMA LessTrans == ASSUME NEW s, NEW t, NEW u, Less(t, s), Less(u, t) PROVE Less(u, s)
BY DEF Less

\* One more frame that is no command.
LEMMA LessOne ==
  ASSUME NEW F, NEW s \in Seq(F), NEW f \in F, f.t # "cmd"
  PROVE  /\ Append(s, f) \in Seq(F) /\ Less(Append(s, f), s)
         /\ s \o <<f>> \in Seq(F) /\ Less(s \o <<f>>, s)
<1>1. ASSUME NEW t, t = Append(s, f) \/ t = s \o <<f>>
      PROVE  t \in Seq(F) /\ Less(t, s)
  <2>1. t \in Seq(F) /\ Len(t) = Len(s) + 1 /\ Len(s) \in Nat /\ t[Len(s) + 1] = f
        /\ \A i \in 1 .. Len(s) : t[i] = s[i]
    BY <1>1
  <2>2. \A id \in Cmds : Has(t, id) => Has(s, id)
    BY <2>1 DEF Has, IsCmd
  <2>3. \A id \in Cmds : Once(s, id) => Once(t, id)
    BY <2>1 DEF Once, IsCmd
  <2> QED
    BY <2>1, <2>2, <2>3 DEF Less
<1> QED
  BY <1>1

\* The first frame is read.
LEMMA LessTail ==
  ASSUME NEW F, NEW s \in Seq(F), s # <<>>
  PROVE  /\ s[1] \in F /\ Tail(s) \in Seq(F) /\ Less(Tail(s), s)
         /\ \A id \in Cmds : IsCmd(s[1], id) => Has(s, id) /\ (Once(s, id) => ~Has(Tail(s), id))
<1> DEFINE t == Tail(s)
<1>1. t \in Seq(F) /\ Len(t) = Len(s) - 1 /\ Len(s) \in Nat \ {0}
      /\ \A i \in 1 .. Len(t) : t[i] = s[i + 1]
  OBVIOUS
<1> HIDE DEF t
<1>2. \A id \in Cmds : Has(t, id) => Has(s, id)
  BY <1>1 DEF Has
<1>3. \A id \in Cmds : Once(s, id) => Once(t, id)
  BY <1>1 DEF Once
<1>4. \A id \in Cmds : IsCmd(s[1], id) => Has(s, id) /\ (Once(s, id) => ~Has(t, id))
  BY <1>1 DEF Once, Has
<1>5. s[1] \in F
  BY <1>1
<1> QED
  BY <1>1, <1>2, <1>3, <1>4, <1>5 DEF Less, t

\* A command is forwarded.
LEMMA HasAppend ==
  ASSUME NEW F, NEW s \in Seq(F), NEW f \in F, NEW x \in Cmds, IsCmd(f, x)
  PROVE  /\ \A id \in Cmds : Has(s \o <<f>>, id) => Has(s, id) \/ id = x
         /\ \A id \in Cmds : Once(s, id) /\ (id = x => ~Has(s, id)) => Once(s \o <<f>>, id)
<1> DEFINE t == s \o <<f>>
<1>1. Len(t) = Len(s) + 1 /\ Len(s) \in Nat /\ t[Len(s) + 1] = f
      /\ \A i \in 1 .. Len(s) : t[i] = s[i]
  OBVIOUS
<1> HIDE DEF t
<1>2. \A id \in Cmds : Has(t, id) => Has(s, id) \/ id = x
  BY <1>1 DEF Has, IsCmd
<1>3. ASSUME NEW id \in Cmds, Once(s, id), id = x => ~Has(s, id) PROVE Once(t, id)
  <2>1. \A i \in 1 .. Len(s) : IsCmd(t[i], id) => id # x
    BY <1>1, <1>3 DEF Has
  <2>2. IsCmd(t[Len(s) + 1], id) => id = x
    BY <1>1 DEF IsCmd
  <2> QED
    BY <1>1, <1>3, <2>1, <2>2 DEF Once
<1> QED
  BY <1>2, <1>3 DEF t

LEMMA LastOfFacts ==
  ASSUME NEW F, NEW s \in Seq(F), NEW n \in Nat
  PROVE  /\ LastOf(s, n) \in Seq(F) /\ Len(LastOf(s, n)) <= n
         /\ \A i \in 1 .. Len(LastOf(s, n)) : \E j \in 1 .. Len(s) : LastOf(s, n)[i] = s[j]
         /\ Len(s) <= n => LastOf(s, n) = s
<1> DEFINE k == IF Len(s) > n THEN Len(s) - n + 1 ELSE 1
           t == SubSeq(s, k, Len(s))
<1>1. LastOf(s, n) = t
  BY DEF LastOf
<1>2. k \in Nat \ {0} /\ Len(s) \in Nat /\ Len(s) - k + 1 <= n /\ k <= Len(s) + 1
      /\ (Len(s) <= n => k = 1)
  OBVIOUS
<1> HIDE DEF k
<1>3. t \in Seq(F) /\ Len(t) = Len(s) - k + 1 /\ \A i \in 1 .. Len(t) : t[i] = s[i + k - 1]
  BY <1>2
<1>4. k = 1 => t = s
  BY <1>2
<1> HIDE DEF t
<1>5. \A i \in 1 .. Len(t) : i + k - 1 \in 1 .. Len(s)
  BY <1>2, <1>3
<1> QED
  BY <1>1, <1>2, <1>3, <1>4, <1>5

LEMMA RemoveFacts ==
  ASSUME NEW F, NEW s \in Seq(F), NEW i \in 1 .. Len(s)
  PROVE  RemoveAt(s, i) \in Seq(F)
BY DEF RemoveAt

LEMMA FrontFacts ==
  ASSUME NEW F, NEW s \in Seq(F)
  PROVE  Front(s) \in Seq(F)
BY DEF Front

----------------------------------------------------------------------------
(***************************************************************************)
(* The network.                                                            *)
(***************************************************************************)
LEMMA PlainFacts ==
  /\ \A code \in Codes : ErrorFrame(code) \in Plain /\ ByeFrame(code) \in Plain
  /\ \A n \in Nat : [t |-> "ready", seq |-> n] \in Plain
  /\ \A f \in Plain : f.t # "cmd"
BY DEF Plain, ErrorFrame, ByeFrame

\* The relay sends the same plain frame to some of its sockets.
LEMMA SentFacts ==
  ASSUME NEW o, NEW d, NEW dn \in [Clients -> Seq(Frames(o, d))], NEW f \in Plain, NEW en,
         \A c \in Clients : en[c] = dn[c] \/ en[c] = dn[c] \o <<f>>
  PROVE  \A c \in Clients : en[c] \in Seq(Frames(o, d)) /\ Less(en[c], dn[c])
<1>1. f \in Frames(o, d) /\ f.t # "cmd"
  BY PlainFacts DEF Frames
<1> QED
  BY <1>1, LessOne, LessSelf

LEMMA PresenceFacts ==
  ASSUME NEW o, NEW d, NEW dn \in [Clients -> Seq(Frames(o, d))], NEW sk
  PROVE  /\ Presence(dn, sk) \in [Clients -> Seq(Frames(o, d))]
         /\ \A c \in Clients : Less(Presence(dn, sk)[c], dn[c])
<1> DEFINE f == [t |-> "presence", host |-> \E p \in Procs : sk[p] = "host",
                 guests |-> Cardinality({g \in Guests : sk[g] = "guest"})]
<1>1. (\E p \in Procs : sk[p] = "host") \in BOOLEAN
  OBVIOUS
<1>2. Cardinality({g \in Guests : sk[g] = "guest"}) \in Nat
  BY RemoteAssumption, FS_Subset, FS_CardinalityType
<1>3. f \in Plain
  BY <1>1, <1>2 DEF Plain
<1> DEFINE en == Presence(dn, sk)
           cs == Authed(sk)
<1>4. en = [c \in Clients |-> IF c \in cs /\ link[c] THEN dn[c] \o <<f>> ELSE dn[c]]
  BY DEF Presence, Sent
<1> HIDE DEF f, en, cs
<1>5. \A c \in Clients : en[c] \in Seq(Frames(o, d)) /\ Less(en[c], dn[c])
  BY <1>3, <1>4, SentFacts
<1>6. en \in [Clients -> Seq(Frames(o, d))]
  BY <1>4, <1>5
<1> QED
  BY <1>5, <1>6 DEF en

LEMMA ByeFacts ==
  ASSUME NEW o, NEW d, NEW dn \in [Clients -> Seq(Frames(o, d))], NEW row \in {"revoked", "expired"}
  PROVE  /\ ByeAll(dn, row) \in [Clients -> Seq(Frames(o, d))]
         /\ \A c \in Clients : Less(ByeAll(dn, row)[c], dn[c])
<1> DEFINE f == ByeFrame(row)
<1>1. f \in Plain
  BY PlainFacts DEF Codes
<1> DEFINE en == ByeAll(dn, row)
           cs == {e \in Clients : sock[e] # "none"}
<1>2. en = [c \in Clients |-> IF c \in cs /\ link[c] THEN dn[c] \o <<f>> ELSE dn[c]]
  BY DEF ByeAll, Sent
<1> HIDE DEF f, en, cs
<1>3. \A c \in Clients : en[c] \in Seq(Frames(o, d)) /\ Less(en[c], dn[c])
  BY <1>1, <1>2, SentFacts
<1>4. en \in [Clients -> Seq(Frames(o, d))]
  BY <1>2, <1>3
<1> QED
  BY <1>3, <1>4 DEF en

\* The relay's answer to one socket.
LEMMA AnswerFacts ==
  ASSUME NEW o, NEW d, NEW dn \in [Clients -> Seq(Frames(o, d))], NEW c \in Clients, NEW f \in Plain
  PROVE  /\ [dn EXCEPT ![c] = Append(@, f)] \in [Clients -> Seq(Frames(o, d))]
         /\ \A e \in Clients : Less([dn EXCEPT ![c] = Append(@, f)][e], dn[e])
<1>1. f \in Frames(o, d) /\ f.t # "cmd"
  BY PlainFacts DEF Frames
<1>2. Append(dn[c], f) \in Seq(Frames(o, d)) /\ Less(Append(dn[c], f), dn[c])
  BY <1>1, LessOne
<1> QED
  BY <1>2, LessSelf

\* What is on its way is lost.
LEMMA LostFacts ==
  ASSUME NEW o, NEW d, NEW dn \in [Clients -> Seq(Frames(o, d))], NEW c \in Clients
  PROVE  /\ [dn EXCEPT ![c] = <<>>] \in [Clients -> Seq(Frames(o, d))]
         /\ \A e \in Clients : Less([dn EXCEPT ![c] = <<>>][e], dn[e])
BY LessSelf, LessEmpty

----------------------------------------------------------------------------
(***************************************************************************)
(* A step of the relay that carries no command, in which no phone but c    *)
(* may become a guest.                                                     *)
(***************************************************************************)
Calm(c, o, d) ==
  /\ NetOK(relay', sock', down', o, d)
  /\ Quiet(relay, relay', down, down')
  /\ \A g \in Guests : sock'[g] = "guest" => sock[g] = "guest" \/ g = c

LEMMA Sides == Procs \subseteq Clients /\ Guests \subseteq Clients /\ Procs \cap Guests = {}
BY RemoteAssumption DEF Clients

LEMMA QuietSelf == ASSUME NEW r, NEW dn PROVE Quiet(r, r, dn, dn)
BY LessSelf DEF Quiet

\* Nothing happens to the network, or only to the frames on their way.
LEMMA DownCalm ==
  ASSUME NEW o, NEW d, NEW c, NetOK(relay, sock, down, o, d), UNCHANGED relay,
         sock' = sock \/ \E e \in Clients : sock' = [sock EXCEPT ![e] = "none"]
                                         \/ sock' = [sock EXCEPT ![e] = "open"],
         down' \in [Clients -> Seq(Frames(o, d))], \A e \in Clients : Less(down'[e], down[e])
  PROVE  Calm(c, o, d)
<1>1. Quiet(relay, relay', down, down')
  BY Sides DEF Quiet
<1>2. /\ sock' \in [Clients -> {"none", "open", "host", "guest"}]
      /\ \A e \in Clients : sock'[e] \in {"host", "guest"} => sock'[e] = sock[e]
  BY DEF NetOK
<1> QED
  BY <1>1, <1>2, Sides DEF Calm, NetOK

LEMMA RejectCalm ==
  ASSUME NEW o, NEW d, NetOK(relay, sock, down, o, d), NEW c \in Clients,
         NEW code \in Codes, Reject(c, code)
  PROVE  Calm(c, o, d)
<1>1. ErrorFrame(code) \in Plain
  BY PlainFacts
<1>2. down \in [Clients -> Seq(Frames(o, d))]
  BY DEF NetOK
<1>3. /\ down' \in [Clients -> Seq(Frames(o, d))]
      /\ \A e \in Clients : Less(down'[e], down[e])
  BY <1>1, <1>2, AnswerFacts DEF Reject
<1> QED
  BY <1>3, DownCalm DEF Reject

LEMMA ReplayFacts ==
  ASSUME NEW o, NEW d, NetOK(relay, sock, down, o, d), NEW c \in Clients, NEW since \in Nat
  PROVE  Replayed(c, since) \in Seq(MsgFrames(d)) /\ (c \in Procs => Replayed(c, since) = <<>>)
<1> DEFINE s == relay.envelopes
           old == {i \in DOMAIN s : s[i].seq <= since}
<1>1. s \in Seq(MsgFrames(d)) /\ DOMAIN s = 1 .. Len(s) /\ Len(s) \in Nat
  BY DEF NetOK, RelayRow
<1>2. Cardinality(old) \in Nat
  <2>1. IsFiniteSet(1 .. Len(s))
    BY <1>1, FS_Interval
  <2> QED
    BY <1>1, <2>1, FS_Subset, FS_CardinalityType
<1>3. Replayed(c, since) = IF c \in Procs THEN <<>> ELSE SubSeq(s, Cardinality(old) + 1, Len(s))
  BY DEF Replayed
<1> HIDE DEF old, s
<1>4. SubSeq(s, Cardinality(old) + 1, Len(s)) \in Seq(MsgFrames(d))
  BY <1>1, <1>2
<1> QED
  BY <1>3, <1>4

\* A hello the room accepts: the answer, what the page missed, the end of another host.
LEMMA WelcomeCalm ==
  ASSUME NEW o, NEW d, NetOK(relay, sock, down, o, d), NEW c \in Clients, NEW since \in Nat,
         relay.row = "live", Welcome(c, since)
  PROVE  Calm(c, o, d)
<1> DEFINE bye == ByeFrame("replaced")
           ready == [t |-> "ready", seq |-> relay.seq]
           rest == Replayed(c, since)
           Bye(e) == <<bye>>
           Ready(e) == <<ready>> \o rest
           dn1 == Sent(down, Taken(c), Bye)
           dn2 == Sent(dn1, {c}, Ready)
           ousted == [s \in Clients |-> IF s \in Taken(c) THEN "none" ELSE sock[s]]
<1>1. down' = Presence(dn2, sock')
      /\ sock' = [ousted EXCEPT ![c] = IF c \in Procs THEN "host" ELSE "guest"] /\ relay' = relay
  BY DEF Welcome
<1>2. bye \in Plain /\ ready \in Plain /\ rest \in Seq(MsgFrames(d))
      /\ (c \in Procs => rest = <<>>) /\ down \in [Clients -> Seq(Frames(o, d))]
  BY PlainFacts, ReplayFacts DEF NetOK, RelayRow, Codes
<1>3. dn1 = [e \in Clients |-> IF e \in Taken(c) /\ link[e] THEN down[e] \o <<bye>> ELSE down[e]]
  BY DEF Sent
<1>4. dn2 = [e \in Clients |-> IF e \in {c} /\ link[e] THEN dn1[e] \o (<<ready>> \o rest) ELSE dn1[e]]
  BY DEF Sent
<1> HIDE DEF bye, ready, rest, dn1, dn2
<1>5. dn1 \in [Clients -> Seq(Frames(o, d))] /\ \A e \in Clients : Less(dn1[e], down[e])
  <2>1. \A e \in Clients : dn1[e] \in Seq(Frames(o, d)) /\ Less(dn1[e], down[e])
    BY <1>2, <1>3, SentFacts
  <2> QED
    BY <1>3, <2>1
<1>6. dn2 \in [Clients -> Seq(Frames(o, d))] /\ \A p \in Procs : Less(dn2[p], dn1[p])
  <2>1. <<ready>> \o rest \in Seq(Frames(o, d))
    BY <1>2 DEF Frames
  <2>2. \A e \in Clients : dn2[e] \in Seq(Frames(o, d))
    BY <1>4, <1>5, <2>1
  <2>3. \A p \in Procs : Less(dn2[p], dn1[p])
    <3>1. ASSUME NEW p \in Procs PROVE Less(dn2[p], dn1[p])
      <4>1. p \in Clients /\ ready \in Frames(o, d) /\ ready.t # "cmd"
        BY <1>2, Sides, PlainFacts DEF Frames
      <4>2. p = c => <<ready>> \o rest = <<ready>>
        BY <1>2, <3>1
      <4>3. dn2[p] = dn1[p] \/ dn2[p] = dn1[p] \o <<ready>>
        BY <1>4, <4>1, <4>2
      <4> QED
        BY <1>5, <4>1, <4>3, LessOne, LessSelf
    <3> QED
      BY <3>1
  <2> QED
    BY <1>4, <2>2, <2>3
<1>7. down' \in [Clients -> Seq(Frames(o, d))] /\ \A p \in Procs : Less(down'[p], down[p])
  <2>1. down' \in [Clients -> Seq(Frames(o, d))] /\ \A e \in Clients : Less(down'[e], dn2[e])
    BY <1>1, <1>6, PresenceFacts
  <2> QED
    BY <1>5, <1>6, <2>1, Sides, LessTrans
<1>8. /\ sock' \in [Clients -> {"none", "open", "host", "guest"}]
      /\ \A e \in Clients : e # c => sock'[e] = sock[e] \/ sock'[e] = "none"
      /\ sock'[c] = IF c \in Procs THEN "host" ELSE "guest"
      /\ c \in Procs => \A e \in Clients : e # c => sock'[e] # "host"
  BY <1>1 DEF NetOK, Taken
<1>9. Quiet(relay, relay', down, down')
  BY <1>1, <1>7 DEF Quiet
<1> QED
  BY <1>1, <1>7, <1>8, <1>9, Sides DEF Calm, NetOK, Clients

\* A frame is answered with an error and the socket stays.
LEMMA RefusedCalm ==
  ASSUME NEW o, NEW d, NetOK(relay, sock, down, o, d), NEW c \in Clients, NEW code \in Codes,
         down' = [down EXCEPT ![c] = Append(@, ErrorFrame(code))], UNCHANGED <<relay, sock>>
  PROVE  Calm(c, o, d)
<1>1. ErrorFrame(code) \in Plain /\ down \in [Clients -> Seq(Frames(o, d))]
  BY PlainFacts DEF NetOK
<1>2. /\ down' \in [Clients -> Seq(Frames(o, d))]
      /\ \A e \in Clients : Less(down'[e], down[e])
  BY <1>1, AnswerFacts
<1> QED
  BY <1>2, DownCalm

\* A client says hello on a new connection.
LEMMA HelloCalm ==
  ASSUME NEW o, NEW d, NetOK(relay, sock, down, o, d), NEW c \in Clients, NEW since \in Nat,
         sock[c] # "guest", Write(c, [t |-> "hello", since |-> since])
  PROVE  Calm(c, o, d)
<1> DEFINE f == [t |-> "hello", since |-> since]
<1>1. f.t = "hello" /\ f.since = since
  OBVIOUS
<1> HIDE DEF f
<1>2. Write(c, f)
  BY DEF f
<1>3. CASE UNCHANGED <<relay, sock, down>>
  BY <1>3, LessSelf, DownCalm DEF NetOK
<1>4. CASE FirstFrame(c, f)
  <2>1. CASE Reject(c, "auth")
    BY <2>1, RejectCalm DEF Codes
  <2>2. CASE Reject(c, "expired")
    BY <2>2, RejectCalm DEF Codes
  <2>3. CASE relay.row = "live" /\ Welcome(c, since)
    BY <2>3, WelcomeCalm
  <2>4. relay.row \in Rows
    BY DEF NetOK, RelayRow, Rows
  <2> QED
    BY <1>1, <1>4, <2>1, <2>2, <2>3, <2>4 DEF FirstFrame, Rows
<1>5. CASE Envelope(c, f)
  BY <1>1, <1>5, RefusedCalm DEF Envelope, Codes
<1> QED
  BY <1>2, <1>3, <1>4, <1>5 DEF Write, NetOK

\* A process sends a state.
LEMMA StateCalm ==
  ASSUME NEW o, NEW d, NetOK(relay, sock, down, o, d), NEW p \in Procs,
         NEW f \in MsgFrames(d), Write(p, f)
  PROVE  Calm(p, o, d)
<1>1. f.t = "msg" /\ f.seq \in Nat /\ p \in Clients /\ sock[p] # "guest"
  BY Sides DEF MsgFrames, NetOK
<1>2. CASE UNCHANGED <<relay, sock, down>>
  BY <1>2, LessSelf, DownCalm DEF NetOK
<1>3. CASE FirstFrame(p, f)
  BY <1>1, <1>3, RejectCalm DEF FirstFrame, Codes
<1>4. CASE Envelope(p, f) /\ ~(f.t # "msg" \/ f.seq <= relay.seq)
  <2> DEFINE es == LastOf(Append(relay.envelopes, f), KeepEnvelopes)
             Out(g) == <<f>>
             en == Sent(down, {g \in Guests : sock[g] = "guest"}, Out)
  <2>1. relay' = [relay EXCEPT !.seq = f.seq, !.envelopes = es] /\ down' = en /\ sock' = sock
    BY <1>4 DEF Envelope
  <2>2. en = [c \in Clients |-> IF c \in {g \in Guests : sock[g] = "guest"} /\ link[c]
                                THEN down[c] \o <<f>> ELSE down[c]]
    BY DEF Sent
  <2>3. es \in Seq(MsgFrames(d)) /\ Len(es) <= KeepEnvelopes
    <3>1. Append(relay.envelopes, f) \in Seq(MsgFrames(d))
      BY DEF NetOK, RelayRow
    <3> QED
      BY <3>1, LastOfFacts, RemoteAssumption
  <2> HIDE DEF es, en
  <2>4. /\ relay' \in RelayRow(d)
        /\ Len(relay'.envelopes) <= KeepEnvelopes
        /\ relay'.row = relay.row /\ relay'.commands = relay.commands
    BY <1>1, <2>1, <2>3 DEF NetOK, RelayRow
  <2>5. f \in Frames(o, d) /\ f.t # "cmd"
    BY <1>1 DEF Frames
  <2>6. \A c \in Clients : en[c] \in Seq(Frames(o, d)) /\ Less(en[c], down[c])
    BY <2>2, <2>5, LessOne, LessSelf DEF NetOK
  <2>7. down' \in [Clients -> Seq(Frames(o, d))]
    BY <2>1, <2>2, <2>6
  <2>8. Quiet(relay, relay', down, down')
    BY <2>1, <2>4, <2>6, Sides DEF Quiet, Gone
  <2> QED
    BY <2>1, <2>4, <2>7, <2>8 DEF Calm, NetOK
<1>5. CASE Envelope(p, f) /\ (f.t # "msg" \/ f.seq <= relay.seq)
  BY <1>1, <1>5, RefusedCalm DEF Envelope, Codes
<1> QED
  BY <1>1, <1>2, <1>3, <1>4, <1>5 DEF Write, NetOK

\* The relay forwards a command to the host.
Forwards(f, o, d) ==
  /\ NetOK(relay', sock', down', o, d)
  /\ sock' = sock /\ relay'.row = relay.row /\ relay.row = "live"
  /\ ~Contains(relay.commands, f.id)
  /\ relay.forgotten \subseteq relay'.forgotten
  /\ \A id \in Cmds \ relay'.forgotten :
       Contains(relay'.commands, id) <=> Contains(relay.commands, id) \/ id = f.id
  /\ \A p \in Procs : \/ down'[p] = down[p]
                      \/ down'[p] = down[p] \o <<f>> /\ sock[p] = "host"

\* A phone sends a command.
LEMMA CommandGoes ==
  ASSUME NEW o, NEW d, NetOK(relay, sock, down, o, d), NEW g \in Guests,
         NEW f \in CmdFrames(o), setup \in Setups, Write(g, f)
  PROVE  Calm(g, o, d) \/ Forwards(f, o, d)
<1>1. f.t = "cmd" /\ f.id \in Cmds /\ g \in Clients /\ sock[g] # "host"
  BY Sides DEF CmdFrames, NetOK
<1>2. CASE UNCHANGED <<relay, sock, down>>
  BY <1>2, LessSelf, DownCalm DEF NetOK
<1>3. CASE FirstFrame(g, f)
  BY <1>1, <1>3, RejectCalm DEF FirstFrame, Codes
<1>4. CASE sock[g] = "guest" /\ Relayed(g, f)
  <2> DEFINE hosts == {p \in Procs : sock[p] = "host"}
  <2>1. CASE Forwarded(f.id)
    BY <1>4, <2>1, LessSelf, DownCalm DEF Relayed, NetOK
  <2>2. CASE ~Forwarded(f.id) /\ hosts = {}
    BY <1>1, <1>4, <2>2, RefusedCalm DEF Relayed, Codes
  <2>3. CASE ~Forwarded(f.id) /\ hosts # {}
    <3> DEFINE Out(p) == <<f>>
               en == Sent(down, hosts, Out)
               all == Append(relay.commands, f.id)
               ids == LastOf(all, setup.keepCommands)
    <3>1.
          /\ relay' = [relay EXCEPT !.commands = ids, !.forgotten = @ \cup (ToSet(all) \ ToSet(ids))]
          /\ down' = en /\ sock' = sock
      BY <1>4, <2>3 DEF Relayed, Remembered
    <3>2. en = [c \in Clients |-> IF c \in hosts /\ link[c] THEN down[c] \o <<f>> ELSE down[c]]
      BY DEF Sent
    <3>3. /\ ids \in Seq(Cmds) /\ ToSet(all) \subseteq Cmds
          /\ \A id : Contains(ids, id) => Contains(all, id)
          /\ \A id : Contains(all, id) <=> Contains(relay.commands, id) \/ id = f.id
      <4>1. relay.commands \in Seq(Cmds) /\ setup.keepCommands \in Nat
        BY RemoteAssumption DEF NetOK, RelayRow
      <4>2. /\ all \in Seq(Cmds) /\ Len(all) = Len(relay.commands) + 1 /\ Len(relay.commands) \in Nat
            /\ all[Len(all)] = f.id /\ \A i \in 1 .. Len(relay.commands) : all[i] = relay.commands[i]
        BY <1>1, <4>1
      <4> HIDE DEF all
      <4>3. ids \in Seq(Cmds) /\ \A i \in 1 .. Len(ids) : \E k \in 1 .. Len(all) : ids[i] = all[k]
        BY <4>1, <4>2, LastOfFacts
      <4> HIDE DEF ids
      <4>4. \A id : Contains(ids, id) => Contains(all, id)
        BY <4>3 DEF Contains
      <4>5. \A id : Contains(all, id) <=> Contains(relay.commands, id) \/ id = f.id
        BY <4>2 DEF Contains
      <4>6. ToSet(all) \subseteq Cmds
        BY <4>2 DEF ToSet
      <4> QED
        BY <4>3, <4>4, <4>5, <4>6
    <3> HIDE DEF ids, en, all
    <3>4. /\ relay' \in RelayRow(d)
          /\ relay'.envelopes = relay.envelopes /\ relay'.row = relay.row /\ relay'.commands = ids
          /\ relay'.forgotten = relay.forgotten \cup (ToSet(all) \ ToSet(ids))
      BY <3>1, <3>3 DEF NetOK, RelayRow
    <3>12. \A id \in Cmds \ relay'.forgotten :
             Contains(relay'.commands, id) <=> Contains(relay.commands, id) \/ id = f.id
      <4>1. \A s, id : Contains(s, id) <=> id \in ToSet(s)
        BY DEF Contains, ToSet
      <4> QED
        BY <3>3, <3>4, <4>1
    <3>5. down \in [Clients -> Seq(Frames(o, d))] /\ f \in Frames(o, d)
      BY DEF NetOK, Frames
    <3>6. \A c \in Clients : en[c] \in Seq(Frames(o, d))
      BY <3>2, <3>5
    <3>7. down' \in [Clients -> Seq(Frames(o, d))]
      BY <3>1, <3>2, <3>6
    <3>8. \A p \in Procs : \/ down'[p] = down[p]
                           \/ down'[p] = down[p] \o <<f>> /\ sock[p] = "host"
      BY <3>1, <3>2, Sides
    <3>9. relay.row = "live"
      BY <1>1, <1>4 DEF NetOK
    <3>10. ~Contains(relay.commands, f.id)
      BY <2>3 DEF Forwarded
    <3>11. NetOK(relay', sock', down', o, d)
      BY <3>1, <3>4, <3>7 DEF NetOK
    <3> QED
      BY <3>1, <3>4, <3>8, <3>9, <3>10, <3>11, <3>12 DEF Forwards
  <2> QED
    BY <2>1, <2>2, <2>3
<1> QED
  BY <1>1, <1>2, <1>3, <1>4 DEF Write, NetOK

\* The room ends: every socket is closed.
LEMMA RoomEndsCalm ==
  ASSUME NEW o, NEW d, NetOK(relay, sock, down, o, d), NEW c, NEW row \in Ended, RoomEnds(row),
         down' \in [Clients -> Seq(Frames(o, d))], \A e \in Clients : Less(down'[e], down[e])
  PROVE  Calm(c, o, d)
<1>1. /\ relay' \in RelayRow(d)
      /\ relay'.envelopes = <<>> /\ relay'.commands = <<>> /\ relay'.row \in Ended
      /\ relay'.forgotten = relay.forgotten
  <2>1. <<>> \in Seq(MsgFrames(d)) /\ <<>> \in Seq(Cmds) /\ row \in Rows
    BY DEF Rows, Ended
  <2>2. relay' = [relay EXCEPT !.row = row, !.envelopes = <<>>, !.commands = <<>>]
    BY DEF RoomEnds
  <2> QED
    BY <2>1, <2>2 DEF NetOK, RelayRow
<1>2. sock' \in [Clients -> {"none", "open", "host", "guest"}] /\ \A e \in Clients : sock'[e] = "none"
  BY DEF RoomEnds
<1>3. Len(relay'.envelopes) <= KeepEnvelopes
  BY <1>1, RemoteAssumption
<1>4. Quiet(relay, relay', down, down')
  BY <1>1, Sides DEF Quiet, Gone
<1> QED
  BY <1>1, <1>2, <1>3, <1>4, Sides DEF Calm, NetOK

----------------------------------------------------------------------------
(***************************************************************************)
(* The invariant.                                                          *)
(***************************************************************************)
Working(j, id) == \E p \in Procs : \E x \in j[p] : x.id = id

Job == [gen : Nat, id : Cmds, n : Nonces, st : {"checking", "sink"}]

\* A process begins only what was addressed to it, and nothing it remembers twice.
Begins(j, k, r, id) ==
  \A x \in j : x.st = "sink" /\ x.id = id =>
    id \in k.seen /\ r[id] = <<>> /\ \A y \in j : y.st = "sink" /\ y.id = id => x = y

Work(h, j, r, o) ==
  /\ j \in [Procs -> SUBSET Job]
  /\ r \in [Cmds -> Seq(Procs)]
  /\ \A p \in Procs : \A id \in h[p].seen \cup h[p].forgotten :
       o[id].word # "none" /\ o[id].to = p
  /\ \A p \in Procs : \A x \in j[p] :
       /\ o[x.id].word # "none" /\ o[x.id].to = x.n.p
       /\ x.st = "sink" => x.n.p = p
  /\ \A id \in Cmds : \A i \in 1 .. Len(r[id]) : o[id].word # "none" /\ r[id][i] = o[id].to
  /\ \A p \in Procs : \A id \in Cmds \ h[p].forgotten : Begins(j[p], h[p], r, id)
  /\ \A id \in Cmds : r[id] # <<>> /\ id \notin h[o[id].to].forgotten =>
       Len(r[id]) = 1 /\ id \in h[o[id].to].seen

\* A command is in one place, and the relay knows of it.
OnePlace(r, dn, j, rn, id) ==
  /\ Working(j, id) \/ rn[id] # <<>> => Gone(r, id)
  /\ Working(j, id) => rn[id] = <<>>
  /\ \A p, q \in Procs : \A x \in j[p], y \in j[q] : x.id = id /\ y.id = id => p = q /\ x = y
  /\ Len(rn[id]) <= 1
  /\ \A p \in Procs : Has(dn[p], id) =>
       /\ Gone(r, id) /\ ~Working(j, id) /\ rn[id] = <<>>
       /\ Once(dn[p], id) /\ \A q \in Procs : Has(dn[q], id) => p = q

Memory(r, dn, j, rn) == \A id \in Cmds \ r.forgotten : OnePlace(r, dn, j, rn, id)

\* The commands nobody will run any more.
Free(r, dn, j, rn) ==
  {id \in Cmds : Gone(r, id) /\ (\A p \in Procs : ~Has(dn[p], id)) /\ ~Working(j, id) /\ rn[id] = <<>>}

Over == Free(relay, down, jobs, ran) \cup relay.forgotten

Inv ==
  /\ setup \in Setups /\ session \in [Procs -> Nat]
  /\ Hosts(host, Over) /\ Writers(writers, Over)
  /\ Pages(page, told, Over) /\ Telling(told, Over)
  /\ NetOK(relay, sock, down, told, Over)
  /\ \A g \in Guests : page[g].st = "hello" => sock[g] # "guest"
  /\ Work(host, jobs, ran, told)
  /\ Memory(relay, down, jobs, ran)

----------------------------------------------------------------------------
(***************************************************************************)
(* More commands are told of, and more are over.                           *)
(***************************************************************************)
Later(o, q) ==
  \A id \in Cmds : o[id].word # "none" => q[id].word # "none" /\ q[id].to = o[id].to

LEMMA LaterSelf == ASSUME NEW o PROVE Later(o, o)
BY DEF Later

LEMMA Widen ==
  ASSUME NEW o, NEW q, NEW d, NEW e, Later(o, q), d \subseteq e
  PROVE  /\ Snaps(d) \subseteq Snaps(e) /\ FullStates(d) \subseteq FullStates(e)
         /\ CmdFrames(o) \subseteq CmdFrames(q)
         /\ \A h : Hosts(h, d) => Hosts(h, e)
         /\ \A w : Writers(w, d) => Writers(w, e)
         /\ \A pg : Pages(pg, o, d) => Pages(pg, q, e)
         /\ \A t : Telling(t, d) => Telling(t, e)
         /\ \A r, s, dn : NetOK(r, s, dn, o, d) => NetOK(r, s, dn, q, e)
<1>1. \A a : Honest(a, d) => Honest(a, e)
  BY DEF Honest
<1>2. FullStates(d) \subseteq FullStates(e)
  BY <1>1 DEF FullStates
<1>3. Snaps(d) \subseteq Snaps(e)
  BY <1>2 DEF Snaps
<1>4. CmdFrames(o) \subseteq CmdFrames(q)
  BY DEF CmdFrames, Later
<1>5. MsgFrames(d) \subseteq MsgFrames(e)
  BY <1>2 DEF MsgFrames
<1>6. Frames(o, d) \subseteq Frames(q, e)
  BY <1>4, <1>5 DEF Frames
<1>7. \A h : Hosts(h, d) => Hosts(h, e)
  BY <1>1 DEF Hosts
<1>8. ASSUME NEW w, Writers(w, d) PROVE Writers(w, e)
  <2>1. Writer(d) \subseteq Writer(e)
    BY <1>3 DEF Writer
  <2>2. Seq(Writer(d)) \subseteq Seq(Writer(e))
    BY <2>1
  <2> QED
    BY <1>8, <2>2 DEF Writers
<1>9. ASSUME NEW pg, Pages(pg, o, d) PROVE Pages(pg, q, e)
  <2>1. Page(o, d) \subseteq Page(q, e)
    BY <1>3, <1>4 DEF Page
  <2> QED
    BY <1>9, <2>1 DEF Pages
<1>10. \A t : Telling(t, d) => Telling(t, e)
  BY DEF Telling
<1>11. ASSUME NEW r, NEW s, NEW dn, NetOK(r, s, dn, o, d) PROVE NetOK(r, s, dn, q, e)
  <2>1. Seq(MsgFrames(d)) \subseteq Seq(MsgFrames(e)) /\ Seq(Frames(o, d)) \subseteq Seq(Frames(q, e))
    BY <1>5, <1>6
  <2>2. r \in RelayRow(e)
    BY <1>11, <2>1 DEF NetOK, RelayRow
  <2>3. dn \in [Clients -> Seq(Frames(q, e))]
    BY <1>11, <2>1 DEF NetOK
  <2> QED
    BY <1>11, <2>2, <2>3 DEF NetOK
<1> QED
  BY <1>2, <1>3, <1>4, <1>7, <1>8, <1>9, <1>10, <1>11

\* What the processes have begun is not in question while they begin nothing.
LEMMA WorkStays ==
  ASSUME NEW h, NEW k, NEW j, NEW r, NEW o, NEW q, Work(h, j, r, o), Later(o, q),
         \A p \in Procs : k[p].seen = h[p].seen /\ h[p].seen \subseteq Cmds
         /\ k[p].forgotten = h[p].forgotten /\ h[p].forgotten \subseteq Cmds
  PROVE  Work(k, j, r, q)
<1>1. \A p \in Procs : \A x \in j[p] : x.id \in Cmds
  BY DEF Work, Job
<1>2. \A id \in Cmds : r[id] # <<>> =>
        o[id].word # "none" /\ q[id].word # "none" /\ q[id].to = o[id].to /\ o[id].to \in Procs
  <2>1. ASSUME NEW id \in Cmds, r[id] # <<>>
        PROVE  o[id].word # "none" /\ o[id].to = r[id][1] /\ r[id][1] \in Procs
    <3>1. r[id] \in Seq(Procs)
      BY DEF Work
    <3>2. 1 \in 1 .. Len(r[id]) /\ r[id][1] \in Procs
      BY <2>1, <3>1
    <3> QED
      BY <3>2 DEF Work
  <2> QED
    BY <2>1 DEF Later
<1>3. \A p \in Procs : \A id \in k[p].seen \cup k[p].forgotten : q[id].word # "none"
      /\ q[id].to = p
  BY DEF Work, Later
<1>4. \A p \in Procs : \A x \in j[p] :
        /\ q[x.id].word # "none" /\ q[x.id].to = x.n.p
        /\ x.st = "sink" => x.n.p = p
  BY <1>1 DEF Work, Later
<1>5. \A id \in Cmds : \A i \in 1 .. Len(r[id]) : q[id].word # "none" /\ r[id][i] = q[id].to
  BY DEF Work, Later
<1>6. \A p \in Procs : \A id \in Cmds \ k[p].forgotten : Begins(j[p], k[p], r, id)
  BY DEF Work, Begins
<1>7. \A id \in Cmds : r[id] # <<>> /\ id \notin k[q[id].to].forgotten =>
        Len(r[id]) = 1 /\ id \in k[q[id].to].seen
  BY <1>2 DEF Work
<1> QED
  BY <1>3, <1>4, <1>5, <1>6, <1>7 DEF Work

\* Steps that bring no command to a process.
LEMMA QuietOver ==
  ASSUME Inv, UNCHANGED <<setup, jobs, ran>>, Quiet(relay, relay', down, down')
  PROVE  Over \subseteq Over' /\ Memory(relay, down, jobs, ran)'
<1>1. relay'.forgotten = relay.forgotten /\ \A id \in Cmds : Gone(relay, id) => Gone(relay', id)
  BY DEF Quiet
<1>2. \A id \in Cmds, p \in Procs : /\ Has(down'[p], id) => Has(down[p], id)
                                    /\ Once(down[p], id) => Once(down'[p], id)
  BY DEF Quiet, Less
<1>3. Over \subseteq Over'
  BY <1>1, <1>2 DEF Over, Free
<1>4. ASSUME NEW id \in Cmds \ relay'.forgotten
      PROVE  OnePlace(relay', down', jobs', ran', id)
  <2>1. OnePlace(relay, down, jobs, ran, id)
    BY <1>1 DEF Inv, Memory
  <2> QED
    BY <1>1, <1>2, <2>1 DEF OnePlace
<1> QED
  BY <1>3, <1>4 DEF Memory

\* A command goes to the host: it was nowhere before, unless the relay forgot it.
LEMMA ForwardOver ==
  ASSUME Inv, UNCHANGED <<setup, jobs, ran>>, NEW o, NEW f \in CmdFrames(o), NEW d,
         Forwards(f, o, d)
  PROVE  Over \subseteq Over' /\ Memory(relay, down, jobs, ran)'
<1>1. f.id \in Cmds /\ IsCmd(f, f.id) /\ ~Gone(relay, f.id)
  BY DEF CmdFrames, Forwards, Gone, Ended, IsCmd
<1>2. \A id \in Cmds, p \in Procs :
        /\ Has(down'[p], id) => Has(down[p], id) \/ (id = f.id /\ sock[p] = "host")
        /\ Once(down[p], id) /\ (id = f.id => ~Has(down[p], id)) => Once(down'[p], id)
  <2>1. ASSUME NEW id \in Cmds, NEW p \in Procs
        PROVE  /\ Has(down'[p], id) => Has(down[p], id) \/ (id = f.id /\ sock[p] = "host")
               /\ Once(down[p], id) /\ (id = f.id => ~Has(down[p], id)) => Once(down'[p], id)
    <3>1. CASE down'[p] = down[p]
      BY <3>1
    <3>2. CASE down'[p] = down[p] \o <<f>> /\ sock[p] = "host"
      <4> DEFINE F == Frames(told, Over) \cup {f}
      <4>1. down[p] \in Seq(F)
        <5>1. down[p] \in Seq(Frames(told, Over))
          BY Sides DEF Inv, NetOK
        <5> QED
          BY <5>1
      <4> HIDE DEF F
      <4>2. f \in F
        BY DEF F
      <4> QED
        BY <1>1, <3>2, <4>1, <4>2, HasAppend
    <3> QED
      BY <3>1, <3>2 DEF Forwards
  <2> QED
    BY <2>1
<1>3. /\ relay.forgotten \subseteq relay'.forgotten
      /\ \A id \in Cmds \ relay'.forgotten : Gone(relay', id) <=> Gone(relay, id) \/ id = f.id
  BY DEF Forwards, Gone
<1>4. Over \subseteq Over'
  <2>1. \A id \in Over \ relay'.forgotten : id \in Free(relay, down, jobs, ran) /\ id # f.id
    BY <1>1, <1>3 DEF Over, Free
  <2>2. \A id \in Over \ relay'.forgotten : id \in Free(relay', down', jobs', ran')
    BY <1>2, <1>3, <2>1 DEF Free
  <2> QED
    BY <2>2 DEF Over
<1>5. \A p, q \in Procs : sock[p] = "host" /\ sock[q] = "host" => p = q
  BY Sides DEF Inv, NetOK
<1>6. ASSUME NEW id \in Cmds \ relay'.forgotten PROVE OnePlace(relay', down', jobs', ran', id)
  <2>1. OnePlace(relay, down, jobs, ran, id)
    BY <1>3 DEF Inv, Memory
  <2>2. Gone(relay', id) <=> Gone(relay, id) \/ id = f.id
    BY <1>3
  <2>3. id = f.id => ~Working(jobs, id) /\ ran[id] = <<>> /\ \A p \in Procs : ~Has(down[p], id)
    BY <1>1, <2>1 DEF OnePlace
  <2>4. ASSUME NEW p \in Procs, Has(down'[p], id)
        PROVE  /\ Gone(relay', id) /\ ~Working(jobs', id) /\ ran'[id] = <<>>
               /\ Once(down'[p], id) /\ \A q \in Procs : Has(down'[q], id) => p = q
    <3>1. CASE id # f.id
      BY <1>2, <2>1, <2>2, <2>4, <3>1 DEF OnePlace
    <3>2. CASE id = f.id
      <4>1. Once(down[p], id)
        BY <2>3, <3>2 DEF Has, Once
      <4> QED
        BY <1>2, <1>5, <2>2, <2>3, <2>4, <3>2, <4>1
    <3> QED
      BY <3>1, <3>2
  <2> QED
    BY <2>1, <2>2, <2>4 DEF OnePlace
<1> QED
  BY <1>4, <1>6 DEF Memory

\* Everything that has its shape again, over no fewer commands.
LEMMA Carried ==
  ASSUME Inv, UNCHANGED setup, session' \in [Procs -> Nat], Over \subseteq Over',
         Hosts(host', Over'), Writers(writers', Over), Pages(page', told', Over),
         Telling(told', Over), NetOK(relay', sock', down', told', Over),
         \A g \in Guests : page'[g].st = "hello" => sock'[g] # "guest",
         Work(host', jobs', ran', told'), Memory(relay, down, jobs, ran)'
  PROVE  Inv'
<1>1. setup' \in Setups
  BY DEF Inv
<1>2. Writers(writers', Over') /\ Telling(told', Over')
  BY Widen, LaterSelf
<1>3. Pages(page', told', Over')
  BY Widen, LaterSelf
<1>4. NetOK(relay', sock', down', told', Over')
  BY Widen, LaterSelf
<1> QED
  BY <1>1, <1>2, <1>3, <1>4 DEF Inv

\* A step of a process in which it begins nothing.
LEMMA HostStays ==
  ASSUME Inv, NEW p \in Procs, UNCHANGED <<setup, jobs, page, ran, told>>,
         session' \in [Procs -> Nat], NEW c \in Procs, Calm(c, told, Over),
         Hosts(host', Over), Writers(writers', Over),
         \A q \in Procs : host'[q].seen = host[q].seen /\ host'[q].forgotten = host[q].forgotten
  PROVE  Inv'
<1>1. Over \subseteq Over' /\ Memory(relay, down, jobs, ran)'
  BY QuietOver DEF Calm
<1>2. \A q \in Procs : host[q].seen \subseteq Cmds /\ host[q].forgotten \subseteq Cmds
  BY DEF Inv, Hosts, Client
<1>3. Work(host', jobs', ran', told')
  BY <1>2, LaterSelf, WorkStays DEF Inv
<1>4. \A g \in Guests : page'[g].st = "hello" => sock'[g] # "guest"
  BY Sides DEF Inv, Calm
<1>5. Hosts(host', Over')
  BY <1>1, Widen, LaterSelf DEF Inv
<1> QED
  BY <1>1, <1>3, <1>4, <1>5, Carried DEF Inv, Calm

\* A step of a phone, or of the relay for it.
LEMMA PageStays ==
  ASSUME Inv, UNCHANGED <<setup, session, host, writers, jobs, ran>>, NEW c \in Clients,
         Calm(c, told', Over), Pages(page', told', Over), Telling(told', Over), Later(told, told'),
         \A g \in Guests : page'[g].st = "hello" =>
           sock'[g] # "guest" \/ (page[g].st = "hello" /\ g # c)
  PROVE  Inv'
<1>1. Over \subseteq Over' /\ Memory(relay, down, jobs, ran)'
  BY QuietOver DEF Calm
<1>2. \A q \in Procs : host[q].seen \subseteq Cmds /\ host[q].forgotten \subseteq Cmds
  BY DEF Inv, Hosts, Client
<1>3. Work(host', jobs', ran', told')
  BY <1>2, WorkStays DEF Inv
<1>4. \A g \in Guests : page'[g].st = "hello" => sock'[g] # "guest"
  BY DEF Inv, Calm
<1>5. Hosts(host', Over')
  BY <1>1, Widen, LaterSelf DEF Inv
<1> QED
  BY <1>1, <1>3, <1>4, <1>5, Carried DEF Inv, Calm

\* A phone sends a command to the host.
LEMMA ForwardStays ==
  ASSUME Inv, UNCHANGED <<setup, session, host, writers, jobs, ran>>, NEW f \in CmdFrames(told'),
         Forwards(f, told', Over), Pages(page', told', Over), Telling(told', Over),
         Later(told, told'), \A g \in Guests : page'[g].st = "hello" => page[g].st = "hello"
  PROVE  Inv'
<1>1. Over \subseteq Over' /\ Memory(relay, down, jobs, ran)'
  BY ForwardOver
<1>2. \A q \in Procs : host[q].seen \subseteq Cmds /\ host[q].forgotten \subseteq Cmds
  BY DEF Inv, Hosts, Client
<1>3. Work(host', jobs', ran', told')
  BY <1>2, WorkStays DEF Inv
<1>4. \A g \in Guests : page'[g].st = "hello" => sock'[g] # "guest"
  BY DEF Inv, Forwards
<1>5. Hosts(host', Over')
  BY <1>1, Widen, LaterSelf DEF Inv
<1> QED
  BY <1>1, <1>3, <1>4, <1>5, Carried DEF Inv, Forwards

----------------------------------------------------------------------------
(***************************************************************************)
(* What a process keeps.                                                   *)
(***************************************************************************)
LEMMA HostFacts ==
  ASSUME Inv, NEW p \in Procs
  PROVE  /\ host[p] \in Client /\ host[p].seq \in Nat /\ host[p].nonce \in Nat
         /\ host[p].window \in Seq(Nonces) /\ host[p].seen \in SUBSET Cmds
         /\ host[p].forgotten \in SUBSET Cmds
         /\ host[p].last \in Answers /\ host[p].guests \in Nat /\ host[p].gen \in Nat
         /\ host[p].dirty \in BOOLEAN
         /\ Honest(host[p].last, Over) /\ Len(host[p].window) <= Window
         /\ \A i \in 1 .. Len(host[p].window) :
              host[p].window[i].p = p /\ host[p].window[i].k <= host[p].nonce
         /\ session[p] \in Nat /\ writers[p] \in Seq(Writer(Over))
         /\ p \in Clients /\ down[p] \in Seq(Frames(told, Over))
BY Sides DEF Inv, Hosts, Client, Writers, NetOK

\* One process moves and keeps its answer and its window.
LEMMA HostMoves ==
  ASSUME NEW d, NEW h, Hosts(h, d), NEW p \in Procs, NEW r \in Client,
         r.last = h[p].last, r.window = h[p].window, r.nonce = h[p].nonce
  PROVE  Hosts([h EXCEPT ![p] = r], d)
BY DEF Hosts

\* A state is sealed with a new nonce.
LEMMA Sealed ==
  ASSUME Inv, NEW p \in Procs, NEW h \in Client,
         h.window = host[p].window, h.nonce = host[p].nonce, h.last = host[p].last
  PROVE  /\ Issued(h, p) \in Client /\ Issued(h, p).seen = h.seen
            /\ Issued(h, p).forgotten = h.forgotten
         /\ Hosts([host EXCEPT ![p] = Issued(h, p)], Over)
         /\ Snapshot(p) \in FullStates(Over)
<1> DEFINE n == Nonce(p)
           w == LastOf(Append(host[p].window, n), Window)
           r == Issued(h, p)
<1>1. n \in Nonces /\ n.p = p /\ n.k = host[p].nonce + 1
  BY HostFacts DEF Nonce, Nonces
<1>2. Snapshot(p) \in FullStates(Over)
  BY <1>1, HostFacts DEF Snapshot, FullStates
<1>3. w \in Seq(Nonces) /\ Len(w) <= Window
      /\ \A i \in 1 .. Len(w) : w[i].p = p /\ w[i].k <= host[p].nonce + 1
  <2> DEFINE s == host[p].window
             t == Append(s, n)
  <2>1. s \in Seq(Nonces) /\ \A i \in 1 .. Len(s) : s[i].p = p /\ s[i].k \in Nat /\ s[i].k <= host[p].nonce
    <3>1. \A i \in 1 .. Len(s) : s[i] \in Nonces
      BY HostFacts
    <3> QED
      BY <3>1, HostFacts DEF Nonces
  <2>2. t \in Seq(Nonces) /\ Len(t) = Len(s) + 1 /\ Len(s) \in Nat /\ t[Len(s) + 1] = n
        /\ \A i \in 1 .. Len(s) : t[i] = s[i]
    BY <1>1, <2>1
  <2> HIDE DEF t, s
  <2>3. host[p].nonce \in Nat
    BY HostFacts
  <2>4. \A i \in 1 .. Len(t) : t[i].p = p /\ t[i].k <= host[p].nonce + 1
    BY <1>1, <2>1, <2>2, <2>3
  <2>5. w = LastOf(t, Window)
    BY DEF t, s
  <2> HIDE DEF w
  <2> QED
    <3>1. Window \in Nat
      BY RemoteAssumption
    <3>2. w \in Seq(Nonces) /\ Len(w) <= Window
          /\ \A i \in 1 .. Len(w) : \E j \in 1 .. Len(t) : w[i] = t[j]
      <4>1. t \in Seq(Nonces)
        BY <2>2
      <4> QED
        BY <2>5, <3>1, <4>1, LastOfFacts
    <3> QED
      BY <2>4, <3>2
<1>4. r = [h EXCEPT !.nonce = host[p].nonce + 1, !.window = w]
  BY DEF Issued
<1> HIDE DEF w, n
<1>5. host[p].nonce + 1 \in Nat
  BY HostFacts
<1> HIDE DEF r
<1>6. r \in Client /\ r.seen = h.seen /\ r.forgotten = h.forgotten /\ r.last = h.last
      /\ r.window = w /\ r.nonce = host[p].nonce + 1
  BY <1>3, <1>4, <1>5 DEF Client
<1>7. Hosts([host EXCEPT ![p] = r], Over)
  BY <1>3, <1>6, HostFacts DEF Hosts, Inv
<1> QED
  BY <1>2, <1>6, <1>7 DEF r

----------------------------------------------------------------------------
(***************************************************************************)
(* Steps in which the network does nothing, or a client hangs up.          *)
(***************************************************************************)
LEMMA NothingCalm ==
  ASSUME Inv, UNCHANGED <<relay, sock, down>>, NEW c
  PROVE  Calm(c, told, Over)
BY LessSelf, DownCalm DEF Inv, NetOK

LEMMA HangUpCalm ==
  ASSUME Inv, NEW c \in Clients, NEW e, HangUp(c), UNCHANGED relay
  PROVE  Calm(e, told, Over)
<1>1. down \in [Clients -> Seq(Frames(told, Over))] /\ NetOK(relay, sock, down, told, Over)
  BY DEF Inv, NetOK
<1>2. down' \in [Clients -> Seq(Frames(told, Over))] /\ \A x \in Clients : Less(down'[x], down[x])
  BY <1>1, LostFacts DEF HangUp
<1> QED
  BY <1>1, <1>2, DownCalm DEF HangUp

\* A new connection: its socket is not yet a guest.
LEMMA DialledCalm ==
  ASSUME Inv, NEW c \in Clients, NEW e, Dialled(c), relay' = relay
  PROVE  Calm(e, told, Over) /\ sock'[c] = "open"
<1>1. down \in [Clients -> Seq(Frames(told, Over))] /\ NetOK(relay, sock, down, told, Over)
  BY DEF Inv, NetOK
<1>2. down' \in [Clients -> Seq(Frames(told, Over))] /\ \A x \in Clients : Less(down'[x], down[x])
  BY <1>1, LostFacts DEF Dialled
<1>3. sock' = [sock EXCEPT ![c] = "open"]
  BY DEF Dialled
<1> QED
  BY <1>1, <1>2, <1>3, DownCalm DEF NetOK

\* The first frame on the way to c is read.
LEMMA ReadCalm ==
  ASSUME Inv, NEW c \in Clients, NEW e, down[c] # <<>>,
         down' = [down EXCEPT ![c] = Tail(@)], UNCHANGED <<relay, sock>>
  PROVE  Calm(e, told, Over)
<1>1. down \in [Clients -> Seq(Frames(told, Over))] /\ NetOK(relay, sock, down, told, Over)
  BY DEF Inv, NetOK
<1>2. Tail(down[c]) \in Seq(Frames(told, Over)) /\ Less(Tail(down[c]), down[c])
  BY <1>1, LessTail
<1>3. down' \in [Clients -> Seq(Frames(told, Over))] /\ \A x \in Clients : Less(down'[x], down[x])
  BY <1>1, <1>2, LessSelf
<1> QED
  BY <1>1, <1>3, DownCalm

----------------------------------------------------------------------------
(***************************************************************************)
(* The network's own steps.                                                *)
(***************************************************************************)
LEMMA PagesStay ==
  ASSUME Inv
  PROVE  /\ Hosts(host, Over) /\ Writers(writers, Over) /\ Pages(page, told, Over)
         /\ Telling(told, Over) /\ session \in [Procs -> Nat] /\ Later(told, told)
         /\ NetOK(relay, sock, down, told, Over) /\ down \in [Clients -> Seq(Frames(told, Over))]
         /\ \A g \in Guests : page[g].st = "hello" => sock[g] # "guest"
BY LaterSelf DEF Inv, NetOK

LEMMA BreakStays == ASSUME Inv, NEW c \in Clients, Break(c) PROVE Inv'
<1>1. down' \in [Clients -> Seq(Frames(told, Over))] /\ \A x \in Clients : Less(down'[x], down[x])
  BY PagesStay, LostFacts DEF Break
<1>2. Calm(c, told, Over)
  BY <1>1, PagesStay, DownCalm DEF Break
<1>3. \A g \in Guests : page'[g].st = "hello" => sock'[g] # "guest"
  BY PagesStay DEF Break
<1> QED
  BY <1>2, <1>3, PagesStay, PageStays DEF Break, hostVars

LEMMA RelaySeesCloseStays == ASSUME Inv, NEW c \in Clients, RelaySeesClose(c) PROVE Inv'
<1>1. down' \in [Clients -> Seq(Frames(told, Over))] /\ \A x \in Clients : Less(down'[x], down[x])
  BY PagesStay, PresenceFacts DEF RelaySeesClose
<1>2. Calm(c, told, Over)
  BY <1>1, PagesStay, DownCalm DEF RelaySeesClose
<1>3. \A g \in Guests : page'[g].st = "hello" => sock'[g] # "guest"
  BY PagesStay DEF RelaySeesClose, NetOK
<1> QED
  BY <1>2, <1>3, PagesStay, PageStays DEF RelaySeesClose, hostVars

LEMMA ExpireStays == ASSUME Inv, Expire PROVE Inv'
<1>1. RoomEnds("expired") /\ down' = ByeAll(down, "expired") /\ "expired" \in Ended
  BY DEF Expire, Ended
<1>2. down' \in [Clients -> Seq(Frames(told, Over))] /\ \A x \in Clients : Less(down'[x], down[x])
  BY <1>1, PagesStay, ByeFacts
<1>3. \A c : Calm(c, told, Over)
  BY <1>1, <1>2, PagesStay, RoomEndsCalm
<1>4. \A g \in Guests : sock'[g] # "guest"
  BY <1>1, Sides DEF RoomEnds
<1>5. Over \subseteq Over' /\ Memory(relay, down, jobs, ran)'
  BY <1>3, QuietOver DEF Calm, Expire, hostVars
<1>6. Work(host', jobs', ran', told')
  BY DEF Inv, Expire, hostVars
<1>7. Hosts(host', Over')
  BY <1>5, Widen, LaterSelf, PagesStay DEF Expire, hostVars
<1> QED
  BY <1>3, <1>4, <1>5, <1>6, <1>7, PagesStay, Carried DEF Calm, Expire, hostVars

----------------------------------------------------------------------------
(***************************************************************************)
(* The steps of a process in which it begins no command.                   *)
(***************************************************************************)
\* Only its stage and what does not matter here changes.
LEMMA HostOnly ==
  ASSUME Inv, NEW p \in Procs, NEW r \in Client, host' = [host EXCEPT ![p] = r],
         r.last = host[p].last, r.window = host[p].window, r.nonce = host[p].nonce,
         r.seen = host[p].seen /\ r.forgotten = host[p].forgotten
  PROVE  Hosts(host', Over) /\ \A q \in Procs : host'[q].seen = host[q].seen
           /\ host'[q].forgotten = host[q].forgotten
<1>1. Hosts(host, Over)
  BY DEF Inv
<1>2. Hosts(host', Over)
  BY <1>1, HostMoves
<1> QED
  BY <1>1, <1>2 DEF Hosts

LEMMA StartClientStays == ASSUME Inv, NEW p \in Procs, StartClient(p) PROVE Inv'
<1> DEFINE r == [host[p] EXCEPT !.st = "idle"]
<1>1. r \in Client /\ r.last = host[p].last /\ r.window = host[p].window
      /\ r.nonce = host[p].nonce /\ r.seen = host[p].seen /\ r.forgotten = host[p].forgotten
  <2>1. host[p] \in Client
    BY HostFacts
  <2> QED
    BY <2>1 DEF Client
<1>2. host' = [host EXCEPT ![p] = r]
  BY DEF StartClient
<1>3. Calm(p, told, Over)
  BY NothingCalm DEF StartClient, netVars
<1> QED
  BY <1>1, <1>2, <1>3, HostOnly, HostStays, PagesStay DEF StartClient

LEMMA DialStays == ASSUME Inv, NEW p \in Procs, Dial(p) PROVE Inv'
<1> DEFINE r(st) == [host[p] EXCEPT !.st = st]
<1>1. \A st \in {"stopped", "attached"} :
        /\ r(st) \in Client /\ r(st).last = host[p].last /\ r(st).window = host[p].window
        /\ r(st).nonce = host[p].nonce /\ r(st).seen = host[p].seen
           /\ r(st).forgotten = host[p].forgotten
  <2>1. host[p] \in Client
    BY HostFacts
  <2> QED
    BY <2>1 DEF Client
<1> HIDE DEF r
<1>2. host' = [host EXCEPT ![p] = r("stopped")] \/ host' = [host EXCEPT ![p] = r("attached")]
  BY DEF Dial, r
<1>3. Hosts(host', Over) /\ \A q \in Procs : host'[q].seen = host[q].seen
      /\ host'[q].forgotten = host[q].forgotten
  BY <1>1, <1>2, HostOnly
<1>4. CASE relay.row \in {"revoked", "expired"}
  BY <1>3, <1>4, NothingCalm, HostStays, PagesStay DEF Dial, netVars
<1>5. CASE ~(relay.row \in {"revoked", "expired"})
  <2>1. Dialled(p) /\ relay' = [relay EXCEPT !.row = "live"] /\ p \in Clients
    BY <1>5, Sides DEF Dial
  <2>2. down' \in [Clients -> Seq(Frames(told, Over))] /\ \A x \in Clients : Less(down'[x], down[x])
    BY <2>1, PagesStay, LostFacts DEF Dialled
  <2>3. /\ relay' \in RelayRow(Over)
        /\ relay'.envelopes = relay.envelopes /\ relay'.commands = relay.commands
        /\ relay'.row = "live" /\ relay'.forgotten = relay.forgotten
    BY <2>1, PagesStay DEF NetOK, RelayRow, Rows
  <2>4. /\ sock' \in [Clients -> {"none", "open", "host", "guest"}]
        /\ \A e \in Clients : sock'[e] = IF e = p THEN "open" ELSE sock[e]
    BY <2>1, PagesStay DEF Dialled, NetOK
  <2>5. Quiet(relay, relay', down, down')
    BY <1>5, <2>2, <2>3, Sides DEF Quiet, Gone, Ended
  <2>6. Calm(p, told, Over)
    BY <2>2, <2>3, <2>4, <2>5, PagesStay, Sides DEF Calm, NetOK
  <2> QED
    BY <1>3, <2>6, HostStays, PagesStay DEF Dial
<1> QED
  BY <1>4, <1>5

LEMMA HelloStays == ASSUME Inv, NEW p \in Procs, Hello(p) PROVE Inv'
<1> DEFINE r == [host[p] EXCEPT !.st = "hello"]
<1>1. r \in Client /\ r.last = host[p].last /\ r.window = host[p].window
      /\ r.nonce = host[p].nonce /\ r.seen = host[p].seen /\ r.forgotten = host[p].forgotten
  <2>1. host[p] \in Client
    BY HostFacts
  <2> QED
    BY <2>1 DEF Client
<1>2. host' = [host EXCEPT ![p] = r]
  BY DEF Hello
<1>3. sock[p] # "guest" /\ p \in Clients /\ host[p].seq \in Nat
  BY HostFacts, PagesStay, Sides DEF NetOK
<1>4. Calm(p, told, Over)
  BY <1>3, PagesStay, HelloCalm DEF Hello
<1> QED
  BY <1>1, <1>2, <1>4, HostOnly, HostStays, PagesStay DEF Hello

\* A frame that is read: what its kind says of its parts.
LEMMA FrameFacts ==
  ASSUME Inv, NEW c \in Clients, down[c] # <<>>
  PROVE  /\ down[c][1].t = "ready" => down[c][1].seq \in Nat
         /\ down[c][1].t = "presence" => down[c][1].guests \in Nat /\ down[c][1].host \in BOOLEAN
         /\ down[c][1].t = "cmd" => down[c][1] \in CmdFrames(told)
<1> DEFINE f == down[c][1]
<1>1. f \in Frames(told, Over)
  BY PagesStay, LessTail
<1> HIDE DEF f
<1>2. f.t = "ready" => f \in [t : {"ready"}, seq : Nat]
  BY <1>1 DEF Frames, Plain, CmdFrames, MsgFrames
<1>3. f.t = "presence" => f \in [t : {"presence"}, host : BOOLEAN, guests : Nat]
  BY <1>1 DEF Frames, Plain, CmdFrames, MsgFrames
<1>4. f.t = "cmd" => f \in CmdFrames(told)
  BY <1>1 DEF Frames, Plain, MsgFrames
<1> QED
  BY <1>2, <1>3, <1>4 DEF f

\* A process takes the answer to its hello.
LEMMA HelloAnsweredStays == ASSUME Inv, NEW p \in Procs, HelloAnswered(p) PROVE Inv'
<1> DEFINE f == down[p][1]
           n == IF f.seq > host[p].seq THEN f.seq ELSE host[p].seq
           gen == host[p].gen + 1
           h == [host[p] EXCEPT !.st = "ready", !.gen = gen, !.seq = n]
           w == [NewWriter EXCEPT !.snap = Snapshot(p)]
<1>1. p \in Clients /\ down[p] # <<>>
  BY Sides DEF HelloAnswered
<1>2. CASE f.t = "ready"
  <2>1. n \in Nat /\ gen \in Nat
    BY <1>1, <1>2, FrameFacts, HostFacts
  <2> HIDE DEF n, gen
  <2>2. h \in Client /\ h.window = host[p].window /\ h.nonce = host[p].nonce
        /\ h.last = host[p].last /\ h.seen = host[p].seen /\ h.forgotten = host[p].forgotten
    <3>1. host[p] \in Client
      BY HostFacts
    <3> QED
      BY <2>1, <3>1 DEF Client
  <2> HIDE DEF h
  <2>3. host' = [host EXCEPT ![p] = Issued(h, p)]
    BY <1>2 DEF HelloAnswered, gen, n, h
  <2>4. writers' = [writers EXCEPT ![p] = Append(@, w)]
    BY <1>2 DEF HelloAnswered
  <2>5. Snapshot(p) \in FullStates(Over) /\ Issued(h, p).seen = host[p].seen
        /\ Issued(h, p).forgotten = host[p].forgotten
        /\ Hosts(host', Over)
    BY <2>2, <2>3, Sealed
  <2>6. w \in Writer(Over)
    BY <2>5 DEF NewWriter, Writer, Snaps
  <2> HIDE DEF w
  <2>7. Append(writers[p], w) \in Seq(Writer(Over))
    BY <2>6, HostFacts
  <2>8. Writers(writers', Over)
    BY <2>4, <2>7, PagesStay DEF Writers
  <2>9. \A q \in Procs : host'[q].seen = host[q].seen /\ host'[q].forgotten = host[q].forgotten
    BY <2>3, <2>5, PagesStay DEF Hosts
  <2>10. Calm(p, told, Over)
    BY <1>1, <1>2, ReadCalm DEF HelloAnswered
  <2> QED
    BY <2>5, <2>8, <2>9, <2>10, HostStays, PagesStay DEF HelloAnswered
<1>3. CASE f.t # "ready"
  <2> DEFINE st == IF f.t = "error" THEN "stopped" ELSE "idle"
             r == [host[p] EXCEPT !.st = st]
  <2>1. r \in Client /\ r.last = host[p].last /\ r.window = host[p].window
        /\ r.nonce = host[p].nonce /\ r.seen = host[p].seen /\ r.forgotten = host[p].forgotten
    <3>1. host[p] \in Client
      BY HostFacts
    <3> QED
      BY <3>1 DEF Client
  <2>2. host' = [host EXCEPT ![p] = r]
    BY <1>3 DEF HelloAnswered
  <2> HIDE DEF r
  <2>3. Calm(p, told, Over)
    BY <1>1, <1>3, HangUpCalm DEF HelloAnswered
  <2> QED
    BY <1>3, <2>1, <2>2, <2>3, HostOnly, HostStays, PagesStay DEF HelloAnswered
<1> QED
  BY <1>2, <1>3

\* A connection is over.
LEMMA ReconnectStays == ASSUME Inv, NEW p \in Procs, Reconnect(p) PROVE Inv'
<1> DEFINE r == [host[p] EXCEPT !.st = "idle"]
<1>1. r \in Client /\ r.last = host[p].last /\ r.window = host[p].window
      /\ r.nonce = host[p].nonce /\ r.seen = host[p].seen /\ r.forgotten = host[p].forgotten
  <2>1. host[p] \in Client
    BY HostFacts
  <2> QED
    BY <2>1 DEF Client
<1>2. host' = [host EXCEPT ![p] = r]
  BY DEF Reconnect
<1>3. Calm(p, told, Over)
  BY Sides, HangUpCalm DEF Reconnect
<1>4. Front(writers[p]) \in Seq(Writer(Over))
  BY HostFacts, FrontFacts
<1>5. Writers(writers', Over)
  BY <1>4, PagesStay DEF Reconnect, Writers
<1> QED
  BY <1>1, <1>2, <1>3, <1>5, HostOnly, HostStays, PagesStay DEF Reconnect

\* A request to publish is all that changes.
LEMMA PublishedFacts ==
  ASSUME NEW h \in Client
  PROVE  /\ Published(h) \in Client /\ Published(h).last = h.last
            /\ Published(h).seen = h.seen /\ Published(h).forgotten = h.forgotten
         /\ Published(h).window = h.window /\ Published(h).nonce = h.nonce
BY DEF Published, Client

LEMMA JoinedFacts ==
  ASSUME NEW h \in Client, NEW n \in Nat
  PROVE  /\ Joined(h, n) \in Client /\ Joined(h, n).last = h.last
            /\ Joined(h, n).seen = h.seen /\ Joined(h, n).forgotten = h.forgotten
         /\ Joined(h, n).window = h.window /\ Joined(h, n).nonce = h.nonce
<1> DEFINE g == [h EXCEPT !.guests = n]
<1>1. g \in Client /\ g.last = h.last /\ g.seen = h.seen /\ g.forgotten = h.forgotten
      /\ g.window = h.window
      /\ g.nonce = h.nonce
  BY DEF Client
<1>2. Joined(h, n) = g \/ Joined(h, n) = Published(g)
  BY DEF Joined
<1> HIDE DEF g
<1> QED
  BY <1>1, <1>2, PublishedFacts

LEMMA ChangeStays == ASSUME Inv, NEW p \in Procs, Change(p) PROVE Inv'
<1> DEFINE r == Published(host[p])
<1>1. r \in Client /\ r.last = host[p].last /\ r.window = host[p].window
      /\ r.nonce = host[p].nonce /\ r.seen = host[p].seen /\ r.forgotten = host[p].forgotten
  BY HostFacts, PublishedFacts
<1>2. host' = [host EXCEPT ![p] = r]
  BY DEF Change
<1> HIDE DEF r
<1>3. Calm(p, told, Over)
  BY NothingCalm DEF Change, netVars
<1>4. session' \in [Procs -> Nat]
  BY HostFacts, PagesStay DEF Change
<1> QED
  BY <1>1, <1>2, <1>3, <1>4, HostOnly, HostStays, PagesStay DEF Change

\* One writer changes.
LEMMA WriterMoves ==
  ASSUME Inv, NEW p \in Procs, NEW i \in DOMAIN writers[p], NEW w \in Writer(Over),
         writers' = [writers EXCEPT ![p][i] = w]
  PROVE  Writers(writers', Over)
<1>1. writers[p] \in Seq(Writer(Over)) /\ DOMAIN writers[p] = 1 .. Len(writers[p])
  BY HostFacts
<1>2. [writers[p] EXCEPT ![i] = w] \in Seq(Writer(Over))
  BY <1>1
<1>3. writers' = [writers EXCEPT ![p] = [writers[p] EXCEPT ![i] = w]]
  OBVIOUS
<1> QED
  BY <1>2, <1>3, PagesStay DEF Writers

LEMMA WriterFacts ==
  ASSUME Inv, NEW p \in Procs, NEW i \in DOMAIN writers[p]
  PROVE  writers[p][i] \in Writer(Over) /\ writers[p][i].snap \in Snaps(Over)
         /\ writers[p][i].pending \in BOOLEAN
<1>1. writers[p][i] \in Writer(Over)
  BY HostFacts
<1> QED
  BY <1>1 DEF Writer

LEMMA WriterWakesStays ==
  ASSUME Inv, NEW p \in Procs, NEW i \in DOMAIN writers[p], WriterWakes(p, i) PROVE Inv'
<1> DEFINE r == [host[p] EXCEPT !.dirty = FALSE]
           w == [writers[p][i] EXCEPT !.pending = TRUE]
<1>1. r \in Client /\ r.last = host[p].last /\ r.window = host[p].window
      /\ r.nonce = host[p].nonce /\ r.seen = host[p].seen /\ r.forgotten = host[p].forgotten
  <2>1. host[p] \in Client
    BY HostFacts
  <2> QED
    BY <2>1 DEF Client
<1>2. host' = [host EXCEPT ![p] = r]
  BY DEF WriterWakes
<1>3. w \in Writer(Over)
  BY WriterFacts DEF Writer
<1>4. writers' = [writers EXCEPT ![p][i] = w]
  BY DEF WriterWakes
<1> HIDE DEF r, w
<1>5. Calm(p, told, Over)
  BY NothingCalm DEF WriterWakes, netVars
<1>6. Writers(writers', Over)
  BY <1>3, <1>4, WriterMoves
<1> QED
  BY <1>1, <1>2, <1>5, <1>6, HostOnly, HostStays, PagesStay DEF WriterWakes

LEMMA WriterSealsStays ==
  ASSUME Inv, NEW p \in Procs, NEW i \in DOMAIN writers[p], WriterSeals(p, i) PROVE Inv'
<1> DEFINE w == [pending |-> FALSE, snap |-> Snapshot(p)]
<1>1. host' = [host EXCEPT ![p] = Issued(host[p], p)] /\ writers' = [writers EXCEPT ![p][i] = w]
  BY DEF WriterSeals
<1>2. Snapshot(p) \in FullStates(Over) /\ Issued(host[p], p).seen = host[p].seen
      /\ Issued(host[p], p).forgotten = host[p].forgotten
      /\ Hosts(host', Over)
  <2>1. host[p] \in Client
    BY HostFacts
  <2> QED
    BY <1>1, <2>1, Sealed
<1>3. w \in Writer(Over)
  BY <1>2 DEF Writer, Snaps
<1> HIDE DEF w
<1>4. Writers(writers', Over)
  BY <1>1, <1>3, WriterMoves
<1>5. Calm(p, told, Over)
  BY NothingCalm DEF WriterSeals, netVars
<1>6. \A q \in Procs : host'[q].seen = host[q].seen /\ host'[q].forgotten = host[q].forgotten
  BY <1>1, <1>2, PagesStay DEF Hosts
<1> QED
  BY <1>2, <1>4, <1>5, <1>6, HostStays, PagesStay DEF WriterSeals

LEMMA WriterSendsStays ==
  ASSUME Inv, NEW p \in Procs, NEW i \in DOMAIN writers[p], WriterSends(p, i) PROVE Inv'
<1>1. CASE Connected(p)
  <2> DEFINE f == [t |-> "msg", seq |-> host[p].seq + 1, state |-> writers[p][i].snap]
             st == IF host[p].st = "ready" /\ i = Len(writers[p]) THEN "serving" ELSE host[p].st
             n == host[p].seq + 1
             r == [host[p] EXCEPT !.seq = n, !.st = st]
             w == [writers[p][i] EXCEPT !.snap = NoState]
  <2>1. n \in Nat /\ host[p].st \in {"off", "idle", "attached", "hello", "ready", "serving",
                                     "stopped", "closed"}
    BY HostFacts DEF Client
  <2>2. f \in MsgFrames(Over)
    <3>1. writers[p][i].snap \in FullStates(Over)
      BY WriterFacts DEF WriterSends, Snaps
    <3> QED
      BY <2>1, <3>1 DEF MsgFrames
  <2>3. host' = [host EXCEPT ![p] = r]
    <3>1. host' = [host EXCEPT ![p].seq = n, ![p].st = st]
      BY <1>1 DEF WriterSends
    <3>2. host \in [Procs -> Client]
      BY PagesStay DEF Hosts
    <3> QED
      BY <3>1, <3>2 DEF Client
  <2>4. writers' = [writers EXCEPT ![p][i] = w]
    BY <1>1 DEF WriterSends
  <2>5. st \in {"off", "idle", "attached", "hello", "ready", "serving", "stopped", "closed"}
    BY <2>1
  <2> HIDE DEF n, st
  <2>6. r \in Client /\ r.last = host[p].last /\ r.window = host[p].window
        /\ r.nonce = host[p].nonce /\ r.seen = host[p].seen /\ r.forgotten = host[p].forgotten
    <3>1. host[p] \in Client
      BY HostFacts
    <3> QED
      BY <2>1, <2>5, <3>1 DEF Client
  <2>7. w \in Writer(Over)
    BY WriterFacts DEF Writer, Snaps
  <2> HIDE DEF r, w
  <2>8. Calm(p, told, Over)
    BY <1>1, <2>2, PagesStay, StateCalm DEF WriterSends, n
  <2>9. Writers(writers', Over)
    BY <2>4, <2>7, WriterMoves
  <2> QED
    BY <2>3, <2>6, <2>8, <2>9, HostOnly, HostStays, PagesStay DEF WriterSends
<1>2. CASE ~Connected(p)
  <2>1. UNCHANGED <<host, relay, sock, down>> /\ writers' = [writers EXCEPT ![p] = RemoveAt(@, i)]
    BY <1>2 DEF WriterSends
  <2>2. RemoveAt(writers[p], i) \in Seq(Writer(Over))
    BY HostFacts, RemoveFacts
  <2>3. Writers(writers', Over)
    BY <2>1, <2>2, PagesStay DEF Writers
  <2>4. Calm(p, told, Over)
    BY <2>1, NothingCalm
  <2> QED
    BY <2>1, <2>3, <2>4, HostStays, PagesStay DEF WriterSends
<1> QED
  BY <1>1, <1>2

\* The client is closed.
LEMMA StoppedFacts ==
  ASSUME Inv, NEW p \in Procs, Stopped(p)
  PROVE  /\ Hosts(host', Over) /\ Writers(writers', Over)
         /\ \A q \in Procs : host'[q].seen = host[q].seen
            /\ host'[q].forgotten = host[q].forgotten
<1> DEFINE r == [host[p] EXCEPT !.st = "closed", !.dirty = FALSE]
<1>1. r \in Client /\ r.last = host[p].last /\ r.window = host[p].window
      /\ r.nonce = host[p].nonce /\ r.seen = host[p].seen /\ r.forgotten = host[p].forgotten
  <2>1. host[p] \in Client
    BY HostFacts
  <2> QED
    BY <2>1 DEF Client
<1>2. host' = [host EXCEPT ![p] = r]
  <2>1. host' = [host EXCEPT ![p].st = "closed", ![p].dirty = FALSE] /\ host \in [Procs -> Client]
    BY PagesStay DEF Stopped, Hosts
  <2> QED
    BY <2>1 DEF Client
<1> HIDE DEF r
<1>3. <<>> \in Seq(Writer(Over))
  OBVIOUS
<1>4. Writers(writers', Over)
  BY <1>3, PagesStay DEF Stopped, Writers
<1> QED
  BY <1>1, <1>2, <1>4, HostOnly

LEMMA QuitStays == ASSUME Inv, NEW p \in Procs, Quit(p) PROVE Inv'
<1>1. Calm(p, told, Over)
  BY Sides, HangUpCalm DEF Quit
<1> QED
  BY <1>1, StoppedFacts, HostStays, PagesStay DEF Quit

LEMMA OffStays == ASSUME Inv, NEW p \in Procs, NEW reached \in BOOLEAN, Off(p, reached) PROVE Inv'
<1>1. CASE reached /\ relay.row = "live"
  <2> DEFINE dn == ByeAll(down, "revoked")
  <2>1. RoomEnds("revoked") /\ down' = [dn EXCEPT ![p] = <<>>] /\ "revoked" \in Ended /\ p \in Clients
    BY <1>1, Sides DEF Off, Ended
  <2>2. dn \in [Clients -> Seq(Frames(told, Over))] /\ \A x \in Clients : Less(dn[x], down[x])
    BY PagesStay, ByeFacts
  <2> HIDE DEF dn
  <2>3. down' \in [Clients -> Seq(Frames(told, Over))] /\ \A x \in Clients : Less(down'[x], dn[x])
    BY <2>1, <2>2, LostFacts
  <2>4. \A x \in Clients : Less(down'[x], down[x])
    BY <2>2, <2>3, LessTrans
  <2>5. Calm(p, told, Over)
    BY <2>1, <2>3, <2>4, PagesStay, RoomEndsCalm
  <2> QED
    BY <2>5, StoppedFacts, HostStays, PagesStay DEF Off
<1>2. CASE ~(reached /\ relay.row = "live")
  <2>1. down' = [down EXCEPT ![p] = <<>>] /\ UNCHANGED <<relay, sock>> /\ p \in Clients
    BY <1>2, Sides DEF Off
  <2>2. down' \in [Clients -> Seq(Frames(told, Over))] /\ \A x \in Clients : Less(down'[x], down[x])
    BY <2>1, PagesStay, LostFacts
  <2>3. Calm(p, told, Over)
    BY <2>1, <2>2, PagesStay, DownCalm
  <2> QED
    BY <2>3, StoppedFacts, HostStays, PagesStay DEF Off
<1> QED
  BY <1>1, <1>2

----------------------------------------------------------------------------
(***************************************************************************)
(* A process reads a command, and the session answers.                     *)
(***************************************************************************)
\* An answer is put on record.
LEMMA AnsweredFacts ==
  ASSUME NEW h \in Client, NEW id \in Cmds, NEW ok \in BOOLEAN
  PROVE  /\ Answered(h, id, ok) \in Client /\ Answered(h, id, ok).last = [id |-> id, ok |-> ok]
         /\ Answered(h, id, ok).window = h.window /\ Answered(h, id, ok).nonce = h.nonce
         /\ Answered(h, id, ok).seen = h.seen /\ Answered(h, id, ok).forgotten = h.forgotten
<1>1. [id |-> id, ok |-> ok] \in Answers
  BY DEF Answers
<1> QED
  BY <1>1 DEF Answered, Client

\* The answer on record is honest, so the process is as it should be.
LEMMA HostAnswers ==
  ASSUME Inv, NEW d, Over \subseteq d, NEW p \in Procs, NEW r \in Client,
         host' = [host EXCEPT ![p] = r], Honest(r.last, d),
         r.window = host[p].window, r.nonce = host[p].nonce
  PROVE  Hosts(host', d)
<1>1. Hosts(host, d)
  BY PagesStay, Widen, LaterSelf
<1> QED
  BY <1>1 DEF Hosts

\* A command that is read names the process it was sent to.
LEMMA CommandFacts ==
  ASSUME Inv, NEW p \in Procs, down[p] # <<>>, down[p][1].t = "cmd"
  PROVE  LET f == down[p][1] IN
         /\ f \in CmdFrames(told) /\ f.id \in Cmds /\ f.n \in Nonces
         /\ told[f.id].word # "none" /\ told[f.id].to = f.n.p
         /\ Has(down[p], f.id)
<1> DEFINE f == down[p][1]
<1>1. p \in Clients
  BY Sides
<1>2. f \in CmdFrames(told)
  BY <1>1, FrameFacts
<1>3. f.id \in Cmds /\ f.n \in Nonces /\ told[f.id].word # "none" /\ told[f.id].to = f.n.p
  BY <1>2 DEF CmdFrames
<1>4. IsCmd(f, f.id)
  BY DEF IsCmd
<1>5. Has(down[p], f.id)
  BY <1>1, <1>3, <1>4, PagesStay, LessTail
<1> QED
  BY <1>2, <1>3, <1>5

\* The commands at p, before and after one of them is added, taken out or moved on.
LEMMA JobFacts ==
  ASSUME Inv, NEW p \in Procs, NEW j \in jobs[p]
  PROVE  /\ j \in Job /\ j.id \in Cmds /\ j.n \in Nonces
         /\ told[j.id].word # "none" /\ told[j.id].to = j.n.p
         /\ j.st = "sink" => told[j.id].to = p
BY DEF Inv, Work, Job

\* What is known of the work of all processes.
LEMMA WorkFacts ==
  ASSUME Inv
  PROVE  /\ jobs \in [Procs -> SUBSET Job] /\ ran \in [Cmds -> Seq(Procs)]
         /\ host \in [Procs -> Client]
         /\ \A q \in Procs : host[q].seen \subseteq Cmds /\ host[q].forgotten \subseteq Cmds
         /\ \A q \in Procs : \A y \in host[q].seen \cup host[q].forgotten :
              told[y].word # "none" /\ told[y].to = q
         /\ \A y \in Cmds : \A i \in 1 .. Len(ran[y]) : told[y].word # "none" /\ ran[y][i] = told[y].to
         /\ \A q \in Procs : \A y \in Cmds \ host[q].forgotten : Begins(jobs[q], host[q], ran, y)
         /\ \A y \in Cmds : ran[y] # <<>> /\ y \notin host[told[y].to].forgotten =>
              Len(ran[y]) = 1 /\ y \in host[told[y].to].seen
         /\ \A y \in Cmds \ relay.forgotten : OnePlace(relay, down, jobs, ran, y)
<1>1. host \in [Procs -> Client]
  BY DEF Inv, Hosts
<1> QED
  BY <1>1 DEF Inv, Work, Memory, Client

\* A command on its way is read: the answer says that it is accepted, and it is checked next.
LEMMA TakenUpStays ==
  ASSUME Inv, NEW p \in Procs, down[p] # <<>>, down[p][1].t = "cmd",
         host' = [host EXCEPT ![p] = Answered(@, down[p][1].id, TRUE)],
         jobs' = [jobs EXCEPT ![p] = @ \cup {[gen |-> host[p].gen, id |-> down[p][1].id,
                                              n |-> down[p][1].n, st |-> "checking"]}],
         down' = [down EXCEPT ![p] = Tail(@)],
         UNCHANGED <<setup, session, writers, relay, sock, page, ran, told>>
  PROVE  Inv'
<1> DEFINE f == down[p][1]
           id == f.id
           new == [gen |-> host[p].gen, id |-> id, n |-> f.n, st |-> "checking"]
           r == Answered(host[p], id, TRUE)
<1>1. /\ id \in Cmds /\ p \in Clients /\ Has(down[p], id) /\ IsCmd(f, id)
      /\ f.n \in Nonces /\ told[id].word # "none" /\ told[id].to = f.n.p
  BY CommandFacts, Sides DEF IsCmd
<1>2. Calm(p, told, Over)
  BY <1>1, ReadCalm
<1>3. /\ \A q \in Procs, x \in Cmds : Has(down'[q], x) => Has(down[q], x)
      /\ \A q \in Procs, x \in Cmds : Once(down[q], x) => Once(down'[q], x)
  BY <1>2 DEF Calm, Quiet, Less
<1>4. ASSUME Once(down[p], id) PROVE ~Has(down'[p], id)
  <2>1. ~Has(Tail(down[p]), id)
    BY <1>1, <1>4, PagesStay, LessTail
  <2> QED
    BY <1>1, <2>1, PagesStay
<1>5. host' = [host EXCEPT ![p] = r] /\ jobs' = [jobs EXCEPT ![p] = jobs[p] \cup {new}]
  OBVIOUS
<1>6. new \in Job /\ new.id = id /\ new.n = f.n /\ new.st = "checking"
  BY <1>1, HostFacts DEF Job
<1>7. /\ r \in Client /\ r.last = [id |-> id, ok |-> TRUE] /\ r.window = host[p].window
      /\ r.nonce = host[p].nonce /\ r.seen = host[p].seen /\ r.forgotten = host[p].forgotten
  BY <1>1, HostFacts, AnsweredFacts
<1> HIDE DEF r, new, id, f
<1>8. /\ jobs' \in [Procs -> SUBSET Job]
      /\ \A q \in Procs : \A y \in jobs'[q] : y \in jobs[q] \/ (q = p /\ y = new)
  BY <1>5, <1>6, WorkFacts
<1>9. \A x \in Cmds : Working(jobs', x) => Working(jobs, x) \/ x = id
  BY <1>6, <1>8 DEF Working
<1>10. \A q \in Procs : host'[q].seen = host[q].seen /\ host'[q].forgotten = host[q].forgotten
  BY <1>5, <1>7, WorkFacts
<1>11. Over \subseteq Over'
  <2>1. \A x \in Free(relay, down, jobs, ran) : x # id
    BY <1>1 DEF Free
  <2>2. \A x \in Free(relay, down, jobs, ran) : x \in Free(relay', down', jobs', ran')
    BY <1>3, <1>9, <2>1 DEF Free
  <2> QED
    BY <2>2 DEF Over
<1>12. Hosts(host', Over')
  <2>1. Honest(r.last, Over')
    BY <1>7 DEF Honest
  <2> QED
    BY <1>5, <1>7, <1>11, <2>1, HostAnswers
<1>13. Work(host', jobs', ran', told')
  <2>1. ASSUME NEW q \in Procs, NEW y \in jobs'[q]
        PROVE  told[y.id].word # "none" /\ told[y.id].to = y.n.p /\ (y.st = "sink" => y.n.p = q)
    BY <1>1, <1>6, <1>8, <2>1, JobFacts
  <2>2. ASSUME NEW q \in Procs, NEW x \in Cmds \ host'[q].forgotten
        PROVE  Begins(jobs'[q], host'[q], ran, x)
    <3>1. Begins(jobs[q], host[q], ran, x)
      BY <1>10, <2>2, WorkFacts
    <3>2. \A y \in jobs'[q] : y.st = "sink" => y \in jobs[q]
      BY <1>6, <1>8
    <3> QED
      BY <1>10, <3>1, <3>2 DEF Begins
  <2>3. \A y \in Cmds : ran[y] # <<>> /\ y \notin host'[told[y].to].forgotten =>
          Len(ran[y]) = 1 /\ y \in host'[told[y].to].seen
    <3>1. \A y \in Cmds : ran[y] # <<>> => told[y].to \in Procs
      <4>1. ASSUME NEW y \in Cmds, ran[y] # <<>> PROVE told[y].to \in Procs
        <5>1. ran[y] \in Seq(Procs)
          BY WorkFacts
        <5>2. 1 \in 1 .. Len(ran[y]) /\ ran[y][1] \in Procs
          BY <4>1, <5>1
        <5> QED
          BY <5>2, WorkFacts
      <4> QED
        BY <4>1
    <3> QED
      BY <1>10, <3>1, WorkFacts
  <2>4. \A q \in Procs : \A y \in host'[q].seen \cup host'[q].forgotten :
          told[y].word # "none" /\ told[y].to = q
    BY <1>10, WorkFacts
  <2>5. Work(host', jobs', ran, told)
    BY <1>8, <2>1, <2>2, <2>3, <2>4, WorkFacts DEF Work
  <2> QED
    BY <2>5
<1>14. Memory(relay', down', jobs', ran')
  <2>1. ASSUME NEW x \in Cmds \ relay.forgotten PROVE OnePlace(relay, down', jobs', ran, x)
    <3>1. OnePlace(relay, down, jobs, ran, x)
      BY <2>1, WorkFacts
    <3>2. CASE x = id
      <4>1. /\ Gone(relay, x) /\ ~Working(jobs, x) /\ ran[x] = <<>>
            /\ Once(down[p], x) /\ \A q \in Procs : Has(down[q], x) => p = q
        BY <1>1, <3>1, <3>2 DEF OnePlace
      <4>2. \A q \in Procs : ~Has(down'[q], x)
        BY <1>3, <1>4, <3>2, <4>1
      <4>3. \A q \in Procs : \A y \in jobs'[q] : y.id = x => q = p /\ y = new
        BY <1>8, <4>1 DEF Working
      <4> QED
        BY <4>1, <4>2, <4>3 DEF OnePlace
    <3>3. CASE x # id
      <4>1. \A q \in Procs : \A y \in jobs'[q] : y.id = x => y \in jobs[q]
        BY <1>6, <1>8, <3>3
      <4> QED
        <5>1. \A q, s \in Procs : \A y \in jobs'[q], z \in jobs'[s] :
                y.id = x /\ z.id = x => q = s /\ y = z
          BY <3>1, <4>1 DEF OnePlace
        <5>2. Working(jobs', x) => Working(jobs, x)
          BY <1>9, <3>3
        <5>3. \A q \in Procs : Has(down'[q], x) =>
                /\ Gone(relay, x) /\ ~Working(jobs', x) /\ ran[x] = <<>>
                /\ Once(down'[q], x) /\ \A s \in Procs : Has(down'[s], x) => q = s
          BY <1>3, <3>1, <5>2 DEF OnePlace
        <5> QED
          BY <3>1, <5>1, <5>2, <5>3 DEF OnePlace
    <3> QED
      BY <3>2, <3>3
  <2> QED
    BY <2>1 DEF Memory
<1> QED
  BY <1>2, <1>11, <1>12, <1>13, <1>14, PagesStay, Carried DEF Calm

\* The next frame is read, whatever it is.
LEMMA ReadFrameStays == ASSUME Inv, NEW p \in Procs, ReadFrame(p) PROVE Inv'
<1> DEFINE f == down[p][1]
           ends == f.t = "bye" \/ (f.t = "error" /\ f.code \in Terminal)
<1>1. p \in Clients /\ down[p] # <<>>
  BY Sides DEF ReadFrame
<1>2. CASE ends
  <2> DEFINE r == [host[p] EXCEPT !.st = "stopped"]
  <2>1. r \in Client /\ r.last = host[p].last /\ r.window = host[p].window
        /\ r.nonce = host[p].nonce /\ r.seen = host[p].seen /\ r.forgotten = host[p].forgotten
    <3>1. host[p] \in Client
      BY HostFacts
    <3> QED
      BY <3>1 DEF Client
  <2>2. host' = [host EXCEPT ![p] = r]
    BY <1>2 DEF ReadFrame
  <2> HIDE DEF r
  <2>3. Calm(p, told, Over)
    BY <1>1, <1>2, HangUpCalm DEF ReadFrame
  <2> QED
    BY <1>2, <2>1, <2>2, <2>3, HostOnly, HostStays, PagesStay DEF ReadFrame
<1>3. CASE ~ends /\ f.t = "cmd"
  <2>1. /\ host' = [host EXCEPT ![p] = Answered(@, f.id, TRUE)]
        /\ jobs' = [jobs EXCEPT ![p] = @ \cup {[gen |-> host[p].gen, id |-> f.id, n |-> f.n,
                                                st |-> "checking"]}]
        /\ down' = [down EXCEPT ![p] = Tail(@)]
        /\ UNCHANGED <<setup, session, writers, relay, sock, page, ran, told>>
    BY <1>3 DEF ReadFrame, Applying
  <2> QED
    BY <1>1, <1>3, <2>1, TakenUpStays
<1>4. CASE ~ends /\ f.t # "cmd"
  <2>1. Calm(p, told, Over)
    BY <1>1, <1>4, ReadCalm DEF ReadFrame
  <2>2. CASE f.t = "presence"
    <3> DEFINE r == Joined(host[p], f.guests)
    <3>1. r \in Client /\ r.last = host[p].last /\ r.window = host[p].window
          /\ r.nonce = host[p].nonce /\ r.seen = host[p].seen /\ r.forgotten = host[p].forgotten
      <4>1. host[p] \in Client /\ f.guests \in Nat
        BY <1>1, <2>2, FrameFacts, HostFacts
      <4> QED
        BY <4>1, JoinedFacts
    <3>2. host' = [host EXCEPT ![p] = r]
      BY <1>4, <2>2 DEF ReadFrame
    <3> HIDE DEF r
    <3> QED
      BY <1>4, <2>1, <3>1, <3>2, HostOnly, HostStays, PagesStay DEF ReadFrame
  <2>3. CASE f.t # "presence"
    BY <1>4, <2>1, <2>3, HostStays, PagesStay DEF ReadFrame
  <2> QED
    BY <2>2, <2>3
<1> QED
  BY <1>2, <1>3, <1>4


\* A command leaves the hands of the process: it was refused, or the session took it.
LEMMA LeavesStays ==
  ASSUME Inv, NEW p \in Procs, NEW j \in jobs[p], NEW ok \in BOOLEAN, ok => j.st = "sink",
         jobs' = [jobs EXCEPT ![p] = @ \ {j}],
         host' = [host EXCEPT ![p] = Published(IF ok THEN @ ELSE Answered(@, j.id, FALSE))],
         ran' = IF ok THEN [ran EXCEPT ![j.id] = Append(@, p)] ELSE ran,
         session' \in [Procs -> Nat],
         UNCHANGED <<setup, writers, relay, sock, down, page, told>>
  PROVE  Inv'
<1> DEFINE id == j.id
           a == Answered(host[p], id, FALSE)
           b == IF ok THEN host[p] ELSE a
           r == Published(b)
<1>1. id \in Cmds /\ told[id].word # "none" /\ (ok => told[id].to = p)
  BY JobFacts
<1>2. Working(jobs, id)
  BY DEF Working
<1>3. host' = [host EXCEPT ![p] = r] /\ (ok => ran' = [ran EXCEPT ![id] = Append(@, p)])
  OBVIOUS
<1>4. /\ r \in Client /\ r.last = (IF ok THEN host[p].last ELSE [id |-> id, ok |-> FALSE])
      /\ r.window = host[p].window /\ r.nonce = host[p].nonce
      /\ r.seen = host[p].seen /\ r.forgotten = host[p].forgotten
  <2>1. /\ a \in Client /\ a.last = [id |-> id, ok |-> FALSE] /\ a.window = host[p].window
        /\ a.nonce = host[p].nonce /\ a.seen = host[p].seen /\ a.forgotten = host[p].forgotten
    <3>1. host[p] \in Client
      BY HostFacts
    <3> QED
      BY <1>1, <3>1, AnsweredFacts
  <2> HIDE DEF a
  <2>2. /\ b \in Client /\ b.last = (IF ok THEN host[p].last ELSE [id |-> id, ok |-> FALSE])
        /\ b.window = host[p].window /\ b.nonce = host[p].nonce
        /\ b.seen = host[p].seen /\ b.forgotten = host[p].forgotten
    BY <2>1, HostFacts
  <2> HIDE DEF b
  <2> QED
    BY <2>2, PublishedFacts
<1> HIDE DEF r, b, a, id
<1>5. /\ jobs' \in [Procs -> SUBSET Job]
      /\ \A q \in Procs : \A y \in jobs'[q] : y \in jobs[q] /\ (q = p => y # j)
  BY WorkFacts
<1>6. \A x \in Cmds : Working(jobs', x) => Working(jobs, x)
  BY <1>5 DEF Working
<1>7. \A x \in Cmds : x # id => ran'[x] = ran[x]
  BY <1>3, WorkFacts
<1>8. /\ ran' \in [Cmds -> Seq(Procs)]
      /\ Len(ran'[id]) = IF ok THEN Len(ran[id]) + 1 ELSE Len(ran[id])
      /\ \A i \in 1 .. Len(ran'[id]) : ran'[id][i] = told[id].to
  <2>1. ran[id] \in Seq(Procs) /\ \A i \in 1 .. Len(ran[id]) : ran[id][i] = told[id].to
    BY <1>1, WorkFacts
  <2>2. CASE ok
    <3> DEFINE t == Append(ran[id], p)
    <3>1. /\ t \in Seq(Procs) /\ Len(t) = Len(ran[id]) + 1 /\ t[Len(t)] = p /\ Len(ran[id]) \in Nat
          /\ \A i \in 1 .. Len(ran[id]) : t[i] = ran[id][i]
      BY <2>1
    <3>2. ran' \in [Cmds -> Seq(Procs)] /\ ran'[id] = t
      BY <1>1, <1>3, <2>2, <3>1, WorkFacts
    <3> HIDE DEF t
    <3>3. \A i \in 1 .. Len(t) : t[i] = told[id].to
      <4>1. ASSUME NEW i \in 1 .. Len(t) PROVE t[i] = told[id].to
        <5>1. i \in 1 .. Len(ran[id]) \/ i = Len(t)
          BY <3>1
        <5> QED
          BY <1>1, <2>1, <2>2, <3>1, <5>1
      <4> QED
        BY <4>1
    <3> QED
      BY <2>2, <3>1, <3>2, <3>3
  <2>3. CASE ~ok
    BY <2>1, <2>3, WorkFacts
  <2> QED
    BY <2>2, <2>3
<1>9. ASSUME id \notin relay.forgotten
      PROVE  /\ Gone(relay, id) /\ ran[id] = <<>> /\ ~Working(jobs', id)
             /\ \A q \in Procs : ~Has(down[q], id)
  <2>1. OnePlace(relay, down, jobs, ran, id)
    BY <1>1, <1>9, WorkFacts
  <2>2. ~Working(jobs', id)
    BY <1>5, <2>1 DEF OnePlace, Working, id
  <2> QED
    BY <1>2, <2>1, <2>2 DEF OnePlace
<1>10. Over \subseteq Over' /\ (~ok => id \in Over')
  <2>1. \A x \in Free(relay, down, jobs, ran) : x # id
    BY <1>2 DEF Free
  <2>2. \A x \in Free(relay, down, jobs, ran) : x \in Free(relay', down', jobs', ran')
    BY <1>6, <1>7, <2>1 DEF Free
  <2>3. ~ok /\ id \notin relay.forgotten => id \in Free(relay', down', jobs', ran')
    BY <1>1, <1>9 DEF Free
  <2> QED
    BY <1>1, <2>2, <2>3 DEF Over
<1>11. Hosts(host', Over')
  <2>1. Honest(host[p].last, Over')
    BY <1>10, HostFacts DEF Honest
  <2>2. Honest(r.last, Over')
    BY <1>4, <1>10, <2>1 DEF Honest
  <2> QED
    BY <1>3, <1>4, <1>10, <2>2, HostAnswers
<1>12. \A q \in Procs : host'[q].seen = host[q].seen /\ host'[q].forgotten = host[q].forgotten
  BY <1>3, <1>4, WorkFacts
<1>13. Work(host', jobs', ran', told')
  <2>1. ASSUME NEW q \in Procs, NEW y \in jobs'[q]
        PROVE  told[y.id].word # "none" /\ told[y.id].to = y.n.p /\ (y.st = "sink" => y.n.p = q)
    BY <1>5, <2>1, JobFacts
  <2>2. ASSUME NEW q \in Procs, NEW x \in Cmds \ host[q].forgotten
        PROVE  Begins(jobs'[q], host'[q], ran', x)
    <3>1. Begins(jobs[q], host[q], ran, x)
      BY <2>2, WorkFacts
    <3>2. CASE x # id \/ ~ok
      <4>1. ran'[x] = ran[x]
        BY <1>7, <3>2
      <4> QED
        BY <1>5, <1>12, <3>1, <4>1 DEF Begins
    <3>3. CASE x = id /\ ok
      <4>1. ASSUME NEW y \in jobs'[q], y.st = "sink", y.id = x PROVE FALSE
        <5>1. y \in jobs[q] /\ q = p
          BY <1>1, <1>5, <3>3, <4>1, JobFacts
        <5>2. j \in jobs[q] /\ j.st = "sink" /\ j.id = x
          BY <3>3, <5>1 DEF id
        <5>3. y = j
          BY <3>1, <4>1, <5>1, <5>2 DEF Begins
        <5> QED
          BY <1>5, <4>1, <5>1, <5>3
      <4> QED
        BY <4>1 DEF Begins
    <3> QED
      BY <3>2, <3>3
  <2>3. ASSUME NEW x \in Cmds, ran'[x] # <<>>, x \notin host'[told[x].to].forgotten
        PROVE  Len(ran'[x]) = 1 /\ x \in host'[told[x].to].seen
    <3>1. CASE x = id /\ ok
      <4>1. told[x].to = p /\ x \notin host[p].forgotten
        BY <1>1, <1>12, <2>3, <3>1
      <4>2. ran[x] = <<>> /\ x \in host[p].seen
        <5>1. Begins(jobs[p], host[p], ran, x)
          BY <4>1, WorkFacts
        <5> QED
          BY <3>1, <5>1 DEF Begins, id
      <4> QED
        BY <1>8, <1>12, <3>1, <4>1, <4>2
    <3>2. CASE ~(x = id /\ ok)
      <4>1. ran'[x] = ran[x]
        BY <1>7, <3>2
      <4>2. told[x].to \in Procs
        <5>1. ran[x] \in Seq(Procs) /\ ran[x] # <<>>
          BY <2>3, <4>1, WorkFacts
        <5>2. 1 \in 1 .. Len(ran[x]) /\ ran[x][1] \in Procs
          BY <5>1
        <5> QED
          BY <5>2, WorkFacts
      <4> QED
        BY <1>12, <2>3, <4>1, <4>2, WorkFacts
    <3> QED
      BY <3>1, <3>2
  <2>4. \A q \in Procs : \A y \in host'[q].seen \cup host'[q].forgotten :
          told[y].word # "none" /\ told[y].to = q
    BY <1>12, WorkFacts
  <2>5. \A y \in Cmds : \A i \in 1 .. Len(ran'[y]) : told[y].word # "none" /\ ran'[y][i] = told[y].to
    BY <1>1, <1>7, <1>8, WorkFacts
  <2>6. \A q \in Procs : \A x \in Cmds \ host'[q].forgotten : Begins(jobs'[q], host'[q], ran', x)
    BY <1>12, <2>2
  <2>7. \A x \in Cmds : ran'[x] # <<>> /\ x \notin host'[told[x].to].forgotten =>
          Len(ran'[x]) = 1 /\ x \in host'[told[x].to].seen
    BY <2>3
  <2>8. Work(host', jobs', ran', told)
    BY <1>5, <1>8, <2>1, <2>4, <2>5, <2>6, <2>7 DEF Work
  <2> QED
    BY <2>8
<1>14. Memory(relay', down', jobs', ran')
  <2>1. ASSUME NEW x \in Cmds \ relay.forgotten PROVE OnePlace(relay, down, jobs', ran', x)
    <3>1. OnePlace(relay, down, jobs, ran, x)
      BY <2>1, WorkFacts
    <3>2. CASE x = id
      <4>1. /\ Gone(relay, x) /\ ran[x] = <<>> /\ ~Working(jobs', x)
            /\ \A q \in Procs : ~Has(down[q], x)
        BY <1>9, <2>1, <3>2
      <4>2. Len(ran'[x]) <= 1
        BY <1>8, <3>2, <4>1
      <4>3. \A q \in Procs : \A y \in jobs'[q] : y.id # x
        BY <4>1 DEF Working
      <4> QED
        BY <4>1, <4>2, <4>3 DEF OnePlace
    <3>3. CASE x # id
      <4>1. \A q, s \in Procs : \A y \in jobs'[q], z \in jobs'[s] :
              y.id = x /\ z.id = x => q = s /\ y = z
        BY <1>5, <3>1 DEF OnePlace
      <4>2. (Working(jobs', x) => Working(jobs, x)) /\ ran'[x] = ran[x]
        BY <1>6, <1>7, <3>3
      <4> QED
        BY <3>1, <4>1, <4>2 DEF OnePlace
    <3> QED
      BY <3>2, <3>3
  <2> QED
    BY <2>1 DEF Memory
<1>15. Calm(p, told, Over)
  BY NothingCalm
<1> QED
  BY <1>10, <1>11, <1>13, <1>14, <1>15, PagesStay, Carried DEF Calm

\* A command is given to the session.
LEMMA BegunStays ==
  ASSUME Inv, NEW p \in Procs, NEW j \in jobs[p], j.st = "checking",
         NonceValid(host[p], j.n), ~Seen(host[p], j.id), Begun(p, j),
         UNCHANGED <<setup, session, writers, relay, sock, down, page, ran, told>>
  PROVE  Inv'
<1> DEFINE id == j.id
           new == [j EXCEPT !.st = "sink"]
           dropped == IF Cardinality(host[p].seen) > KeepSeen THEN host[p].seen ELSE {}
           r == Marked(host[p], id)
<1>1. j \in Job /\ id \in Cmds /\ told[id].word # "none" /\ told[id].to = j.n.p /\ id \notin host[p].seen
  BY JobFacts DEF Seen
<1>2. told[id].to = p /\ j.n.p = p
  <2>1. \A i \in 1 .. Len(host[p].window) : host[p].window[i].p = p
    BY HostFacts
  <2> QED
    BY <1>1, <2>1 DEF NonceValid, Contains
<1>3. new \in Job /\ new.id = id /\ new.n = j.n /\ new.st = "sink"
  BY <1>1 DEF Job
<1>4. /\ jobs' = [jobs EXCEPT ![p] = (jobs[p] \ {j}) \cup {new}]
      /\ host' = [host EXCEPT ![p] = r]
  BY DEF Begun
<1>5. dropped \subseteq host[p].seen
  OBVIOUS
<1>6. /\ r \in Client /\ r.last = host[p].last /\ r.window = host[p].window /\ r.nonce = host[p].nonce
      /\ r.seen = (host[p].seen \ dropped) \cup {id}
      /\ r.forgotten = host[p].forgotten \cup dropped
  <2>1. r = [host[p] EXCEPT !.seen = (@ \ dropped) \cup {id}, !.forgotten = @ \cup dropped]
    BY DEF Marked
  <2> HIDE DEF dropped, r
  <2>2. host[p] \in Client /\ host[p].seen \subseteq Cmds /\ host[p].forgotten \subseteq Cmds
    BY HostFacts
  <2>3. (host[p].seen \ dropped) \cup {id} \in SUBSET Cmds
        /\ host[p].forgotten \cup dropped \in SUBSET Cmds
    BY <1>1, <1>5, <2>2
  <2> QED
    BY <2>1, <2>2, <2>3 DEF Client
<1> HIDE DEF r, dropped, new, id
<1>7. /\ jobs' \in [Procs -> SUBSET Job]
      /\ \A q \in Procs : \A y \in jobs'[q] : (y \in jobs[q] /\ (q = p => y # j)) \/ (q = p /\ y = new)
  BY <1>3, <1>4, WorkFacts
<1>8. \A x \in Cmds : Working(jobs', x) <=> Working(jobs, x)
  <2>1. \A q \in Procs : \A y \in jobs[q] : y \in jobs'[q] \/ (q = p /\ y = j)
    BY <1>4, WorkFacts
  <2>2. new \in jobs'[p]
    BY <1>4, WorkFacts
  <2> QED
    BY <1>3, <1>7, <2>1, <2>2 DEF Working, id
<1>9. Over' = Over
  BY <1>8 DEF Over, Free, Gone
<1>10. Hosts(host', Over')
  BY <1>4, <1>6, <1>9, HostFacts, HostAnswers
<1>11. /\ host'[p] = r /\ \A q \in Procs : q # p => host'[q] = host[q]
       /\ \A q \in Procs : host[q].forgotten \subseteq host'[q].forgotten
       /\ \A q \in Procs : \A x \in host[q].seen : x \in host'[q].seen \/ x \in host'[q].forgotten
  BY <1>4, <1>6, WorkFacts
<1>12. ASSUME id \notin host[p].forgotten
       PROVE  ran[id] = <<>> /\ \A y \in jobs[p] : y.st = "sink" => y.id # id
  <2>1. Begins(jobs[p], host[p], ran, id)
    BY <1>1, <1>12, WorkFacts
  <2> QED
    BY <1>1, <1>2, <1>12, <2>1, WorkFacts DEF Begins
<1>13. Work(host', jobs', ran', told')
  <2>1. ASSUME NEW q \in Procs, NEW y \in jobs'[q]
        PROVE  told[y.id].word # "none" /\ told[y.id].to = y.n.p /\ (y.st = "sink" => y.n.p = q)
    BY <1>1, <1>2, <1>3, <1>7, <2>1, JobFacts
  <2>2. ASSUME NEW q \in Procs, NEW x \in Cmds \ host'[q].forgotten
        PROVE  Begins(jobs'[q], host'[q], ran, x)
    <3>1. Begins(jobs[q], host[q], ran, x)
      BY <1>11, <2>2, WorkFacts
    <3>2. CASE q = p /\ x = id
      <4>1. ran[id] = <<>> /\ \A y \in jobs[p] : y.st = "sink" => y.id # id
        BY <1>11, <1>12, <2>2, <3>2
      <4>2. \A y \in jobs'[p] : y.st = "sink" /\ y.id = id => y = new
        BY <1>7, <4>1
      <4>3. id \in host'[p].seen
        BY <1>6, <1>11
      <4> QED
        BY <3>2, <4>1, <4>2, <4>3 DEF Begins
    <3>3. CASE ~(q = p /\ x = id)
      <4>1. \A y \in jobs'[q] : y.id = x => y \in jobs[q]
        BY <1>3, <1>7, <3>3
      <4> QED
        BY <1>11, <2>2, <3>1, <4>1 DEF Begins
    <3> QED
      BY <3>2, <3>3
  <2>3. ASSUME NEW x \in Cmds, ran[x] # <<>>, x \notin host'[told[x].to].forgotten
        PROVE  Len(ran[x]) = 1 /\ x \in host'[told[x].to].seen
    <3>1. told[x].to \in Procs
      <4>1. ran[x] \in Seq(Procs)
        BY WorkFacts
      <4>2. 1 \in 1 .. Len(ran[x]) /\ ran[x][1] \in Procs
        BY <2>3, <4>1
      <4> QED
        BY <4>2, WorkFacts
    <3>2. x \notin host[told[x].to].forgotten
      BY <1>11, <2>3, <3>1
    <3> QED
      BY <1>11, <2>3, <3>1, <3>2, WorkFacts
  <2>4. \A q \in Procs : \A y \in host'[q].seen \cup host'[q].forgotten :
          told[y].word # "none" /\ told[y].to = q
    <3>1. \A q \in Procs : \A y \in host'[q].seen \cup host'[q].forgotten :
            y \in host[q].seen \cup host[q].forgotten \/ (q = p /\ y = id)
      BY <1>5, <1>6, <1>11
    <3> QED
      BY <1>1, <1>2, <3>1, WorkFacts
  <2> QED
    BY <1>7, <2>1, <2>2, <2>3, <2>4, WorkFacts DEF Work
<1>14. Memory(relay', down', jobs', ran')
  <2>1. ASSUME NEW x \in Cmds \ relay.forgotten PROVE OnePlace(relay, down, jobs', ran, x)
    <3>1. OnePlace(relay, down, jobs, ran, x)
      BY <2>1, WorkFacts
    <3>2. \A q, s \in Procs : \A y \in jobs'[q], z \in jobs'[s] :
            y.id = x /\ z.id = x => q = s /\ y = z
      <4>1. CASE x = id
        <5>1. \A q \in Procs : \A y \in jobs[q] : y.id = x => q = p /\ y = j
          BY <3>1, <4>1 DEF OnePlace, id
        <5> QED
          BY <1>7, <5>1
      <4>2. CASE x # id
        <5>1. \A q \in Procs : \A y \in jobs'[q] : y.id = x => y \in jobs[q]
          BY <1>3, <1>7, <4>2
        <5> QED
          BY <3>1, <5>1 DEF OnePlace
      <4> QED
        BY <4>1, <4>2
    <3> QED
      BY <1>8, <3>1, <3>2 DEF OnePlace
  <2> QED
    BY <2>1 DEF Memory
<1>15. Calm(p, told, Over)
  BY NothingCalm
<1> QED
  BY <1>9, <1>10, <1>13, <1>14, <1>15, PagesStay, Carried DEF Calm

LEMMA CheckedStays == ASSUME Inv, NEW p \in Procs, NEW j \in jobs[p], Checked(p, j) PROVE Inv'
<1>1. UNCHANGED <<setup, session, writers, relay, sock, down, page, ran, told>>
  BY DEF Checked, netVars
<1>2. CASE ~NonceValid(host[p], j.n) \/ Seen(host[p], j.id)
  <2>1. Refused(p, j)
    BY <1>2 DEF Checked
  <2>2. session' \in [Procs -> Nat]
    BY <1>1 DEF Inv
  <2> QED
    BY <1>1, <2>1, <2>2, LeavesStays DEF Refused
<1>3. CASE ~(~NonceValid(host[p], j.n) \/ Seen(host[p], j.id))
  BY <1>1, <1>3, BegunStays DEF Checked
<1> QED
  BY <1>2, <1>3

\* The session has taken a command, or refused it.
LEMMA AppliedStays ==
  ASSUME Inv, NEW p \in Procs, NEW j \in jobs[p], NEW ok \in BOOLEAN, Applied(p, j, ok)
  PROVE  Inv'
<1>1. session' \in [Procs -> Nat]
  <2>1. session \in [Procs -> Nat]
    BY DEF Inv
  <2> QED
    BY <2>1 DEF Applied
<1> QED
  BY <1>1, LeavesStays DEF Applied, netVars

----------------------------------------------------------------------------
(***************************************************************************)
(* The steps of a phone.                                                   *)
(***************************************************************************)
LEMMA PageFacts ==
  ASSUME Inv, NEW g \in Guests
  PROVE  /\ page[g] \in Page(told, Over) /\ page[g].seq \in Nat /\ page[g].model \in Snaps(Over)
         /\ page[g].st \in {"waiting", "hello", "resend", "open", "fatal"}
         /\ page[g].host \in BOOLEAN /\ page[g].promised \in BOOLEAN /\ page[g].retries \in Nat
         /\ page[g].pending \in CmdFrames(told) \cup {NoCmd}
         /\ g \in Clients /\ down[g] \in Seq(Frames(told, Over))
         /\ page \in [Guests -> Page(told, Over)]
BY Sides DEF Inv, Pages, Page, NetOK

LEMMA PageMoves ==
  ASSUME Inv, NEW g \in Guests, NEW o, Later(told, o), NEW r \in Page(o, Over),
         page' = [page EXCEPT ![g] = r]
  PROVE  /\ Pages(page', o, Over)
         /\ page'[g] = r /\ \A h \in Guests : h # g => page'[h] = page[h]
<1>1. Pages(page, o, Over)
  BY PagesStay, Widen
<1> QED
  BY <1>1 DEF Pages

LEMMA ConnectStays == ASSUME Inv, NEW g \in Guests, Connect(g) PROVE Inv'
<1> DEFINE r == [page[g] EXCEPT !.st = "hello"]
<1>1. r \in Page(told, Over)
  <2>1. page[g] \in Page(told, Over)
    BY PageFacts
  <2> QED
    BY <2>1 DEF Page
<1>2. page' = [page EXCEPT ![g] = r]
  BY DEF Connect
<1> HIDE DEF r
<1>3. Pages(page', told, Over) /\ \A h \in Guests : h # g => page'[h] = page[h]
  BY <1>1, <1>2, LaterSelf, PageMoves
<1>4. Calm(g, told, Over) /\ sock'[g] = "open"
  BY Sides, DialledCalm DEF Connect
<1>5. \A h \in Guests : page'[h].st = "hello" =>
        sock'[h] # "guest" \/ (page[h].st = "hello" /\ h # g)
  BY <1>3, <1>4
<1> QED
  BY <1>3, <1>4, <1>5, PagesStay, PageStays, Sides DEF Connect, hostVars

LEMMA OpensStays == ASSUME Inv, NEW g \in Guests, Opens(g) PROVE Inv'
<1> DEFINE st == IF page[g].pending = NoCmd THEN "open" ELSE "resend"
           r == [page[g] EXCEPT !.st = st, !.promised = FALSE]
<1>1. r \in Page(told, Over) /\ r.st # "hello"
  <2>1. page[g] \in Page(told, Over)
    BY PageFacts
  <2> QED
    BY <2>1 DEF Page
<1>2. page' = [page EXCEPT ![g] = r]
  <2>1. page' = [page EXCEPT ![g].st = st, ![g].promised = FALSE]
    BY DEF Opens
  <2>2. page \in [Guests -> Page(told, Over)]
    BY PageFacts
  <2> QED
    BY <2>1, <2>2 DEF Page
<1> HIDE DEF r
<1>3. Pages(page', told, Over) /\ page'[g] = r /\ \A h \in Guests : h # g => page'[h] = page[h]
  BY <1>1, <1>2, LaterSelf, PageMoves
<1>4. sock[g] # "guest" /\ page[g].seq \in Nat /\ g \in Clients
  BY PageFacts, PagesStay DEF Opens
<1>5. Calm(g, told, Over)
  BY <1>4, PagesStay, HelloCalm DEF Opens
<1>6. \A h \in Guests : page'[h].st = "hello" => page[h].st = "hello" /\ h # g
  BY <1>1, <1>3
<1> QED
  BY <1>3, <1>4, <1>5, <1>6, PagesStay, PageStays DEF Opens, hostVars

\* A command makes no guest of anybody.
LEMMA NoNewGuest ==
  ASSUME NEW g \in Clients, NEW f, f.t = "cmd", Write(g, f), sock \in [Clients -> {"none", "open", "host", "guest"}]
  PROVE  \A h \in Clients : sock'[h] = "guest" => sock[h] = "guest"
<1>1. CASE UNCHANGED <<relay, sock, down>>
  BY <1>1
<1>2. CASE FirstFrame(g, f)
  BY <1>2 DEF FirstFrame, Reject
<1>3. CASE Envelope(g, f)
  BY <1>3 DEF Envelope
<1>4. CASE Relayed(g, f)
  BY <1>4 DEF Relayed
<1> QED
  BY <1>1, <1>2, <1>3, <1>4 DEF Write

\* Whatever becomes of a command that a phone writes.
LEMMA WrittenStays ==
  ASSUME Inv, UNCHANGED <<setup, session, host, writers, jobs, ran>>, NEW g \in Guests,
         NEW f \in CmdFrames(told'), Write(g, f), Pages(page', told', Over),
         Telling(told', Over), Later(told, told'),
         \A h \in Guests : page'[h].st = "hello" => page[h].st = "hello"
  PROVE  Inv'
<1>1. NetOK(relay, sock, down, told', Over)
  BY PagesStay, Widen
<1>2. setup \in Setups /\ g \in Clients
  BY Sides DEF Inv
<1>3. Calm(g, told', Over) \/ Forwards(f, told', Over)
  BY <1>1, <1>2, CommandGoes
<1>4. CASE Calm(g, told', Over)
  <2>1. \A h \in Clients : sock'[h] = "guest" => sock[h] = "guest"
    <3>1. sock \in [Clients -> {"none", "open", "host", "guest"}]
      BY <1>1 DEF NetOK
    <3>2. f.t = "cmd"
      BY DEF CmdFrames
    <3> QED
      BY <1>2, <3>1, <3>2, NoNewGuest
  <2>2. \A h \in Guests : page'[h].st = "hello" => sock'[h] # "guest"
    BY <2>1, Sides, PagesStay
  <2> QED
    BY <1>2, <1>4, <2>2, PageStays
<1>5. CASE Forwards(f, told', Over)
  BY <1>5, ForwardStays
<1> QED
  BY <1>3, <1>4, <1>5

LEMMA ResendsStays == ASSUME Inv, NEW g \in Guests, Resends(g) PROVE Inv'
<1> DEFINE r == [page[g] EXCEPT !.st = "open"]
<1>1. r \in Page(told, Over) /\ r.st # "hello"
  <2>1. page[g] \in Page(told, Over)
    BY PageFacts
  <2> QED
    BY <2>1 DEF Page
<1>2. page' = [page EXCEPT ![g] = r]
  BY DEF Resends
<1> HIDE DEF r
<1>3. Pages(page', told, Over) /\ page'[g] = r /\ \A h \in Guests : h # g => page'[h] = page[h]
  BY <1>1, <1>2, LaterSelf, PageMoves
<1>4. \A h \in Guests : page'[h].st = "hello" => page[h].st = "hello" /\ h # g
  BY <1>1, <1>3
<1>5. CASE page[g].pending = NoCmd
  <2>1. Calm(g, told, Over)
    BY <1>5, NothingCalm DEF Resends
  <2> QED
    BY <1>3, <1>4, <2>1, PagesStay, PageStays, Sides DEF Resends, hostVars
<1>6. CASE page[g].pending # NoCmd
  <2>1. page[g].pending \in CmdFrames(told)
    BY <1>6, PageFacts
  <2> QED
    BY <1>3, <1>4, <1>6, <2>1, PagesStay, WrittenStays DEF Resends, hostVars
<1> QED
  BY <1>5, <1>6

LEMMA PageClosesStays == ASSUME Inv, NEW g \in Guests, PageCloses(g) PROVE Inv'
<1> DEFINE r == [page[g] EXCEPT !.st = "waiting", !.host = FALSE]
<1>1. r \in Page(told, Over) /\ r.st # "hello"
  <2>1. page[g] \in Page(told, Over)
    BY PageFacts
  <2> QED
    BY <2>1 DEF Page
<1>2. page' = [page EXCEPT ![g] = r]
  <2>1. page' = [page EXCEPT ![g].st = "waiting", ![g].host = FALSE]
    BY DEF PageCloses
  <2>2. page \in [Guests -> Page(told, Over)]
    BY PageFacts
  <2> QED
    BY <2>1, <2>2 DEF Page
<1> HIDE DEF r
<1>3. Pages(page', told, Over) /\ page'[g] = r /\ \A h \in Guests : h # g => page'[h] = page[h]
  BY <1>1, <1>2, LaterSelf, PageMoves
<1>4. \A h \in Guests : page'[h].st = "hello" => page[h].st = "hello" /\ h # g
  BY <1>1, <1>3
<1>5. Calm(g, told, Over)
  BY Sides, HangUpCalm DEF PageCloses
<1>6. UNCHANGED <<setup, session, host, writers, jobs, ran, told>> /\ g \in Clients
  BY Sides DEF PageCloses, hostVars
<1>7. Telling(told', Over) /\ Later(told, told')
  BY <1>6, PagesStay
<1> QED
  BY <1>3, <1>4, <1>5, <1>6, <1>7, PageStays

\* What the phone says of the command in flight.
LEMMA SettledFacts ==
  ASSUME Inv, NEW id \in Cmds, told[id].word # "none", NEW w \in Words,
         w = "refused" => id \in Over, told' = [told EXCEPT ![id].word = w]
  PROVE  Telling(told', Over) /\ Later(told, told')
<1> DEFINE r == [told[id] EXCEPT !.word = w]
<1>1. told \in [Cmds -> [word : {"none"}] \cup [word : Words, to : Procs]]
      /\ \A x \in Cmds : told[x].word = "refused" => x \in Over
  BY DEF Inv, Telling
<1>2. told[id] \in [word : Words, to : Procs]
  BY <1>1
<1>3. r \in [word : Words, to : Procs] /\ r.word = w /\ r.to = told[id].to /\ w # "none"
  BY <1>2 DEF Words
<1>4. told' = [told EXCEPT ![id] = r]
  OBVIOUS
<1> HIDE DEF r
<1>5. /\ told' \in [Cmds -> [word : {"none"}] \cup [word : Words, to : Procs]]
      /\ told'[id] = r /\ \A x \in Cmds : x # id => told'[x] = told[x]
  BY <1>1, <1>3, <1>4
<1> QED
  BY <1>1, <1>3, <1>5 DEF Telling, Later

LEMMA GivesUpStays == ASSUME Inv, NEW g \in Guests, GivesUp(g) PROVE Inv'
<1> DEFINE r == [page[g] EXCEPT !.pending = NoCmd, !.promised = FALSE]
           id == page[g].pending.id
<1>1. id \in Cmds /\ told[id].word # "none"
  BY PageFacts DEF GivesUp, CmdFrames
<1>2. told' = [told EXCEPT ![id].word = "unconfirmed"]
  BY DEF GivesUp, Settled
<1> HIDE DEF id
<1>3. Telling(told', Over) /\ Later(told, told')
  BY <1>1, <1>2, SettledFacts DEF Words
<1>4. r \in Page(told', Over) /\ r.st = page[g].st
  <2>1. page[g] \in Page(told', Over)
    BY <1>3, PagesStay, Widen DEF Pages
  <2> QED
    BY <2>1 DEF Page
<1>5. page' = [page EXCEPT ![g] = r]
  <2>1. page' = [page EXCEPT ![g].pending = NoCmd, ![g].promised = FALSE]
    BY DEF GivesUp
  <2>2. page \in [Guests -> Page(told, Over)]
    BY PageFacts
  <2> QED
    BY <2>1, <2>2 DEF Page
<1> HIDE DEF r
<1>6. Pages(page', told', Over) /\ page'[g] = r /\ \A h \in Guests : h # g => page'[h] = page[h]
  BY <1>3, <1>4, <1>5, PageMoves
<1>7. \A h \in Guests : page'[h].st = "hello" => sock'[h] # "guest"
  BY <1>4, <1>6, PagesStay DEF GivesUp, netVars
<1>8. UNCHANGED <<relay, sock, down>>
  BY DEF GivesUp, netVars
<1>9. Calm(g, told', Over)
  <2>1. NetOK(relay, sock, down, told', Over)
    BY <1>3, PagesStay, Widen
  <2> QED
    BY <1>8, <2>1, LessSelf, DownCalm DEF NetOK
<1> QED
  BY <1>3, <1>6, <1>7, <1>9, PageStays, Sides DEF GivesUp, hostVars

\* A state is decrypted and shown: the human reads that the command was refused only
\* from the process that will not run it.
LEMMA WordFacts ==
  ASSUME Inv, NEW g \in Guests, NEW s \in FullStates(Over), page[g].pending # NoCmd
  PROVE  /\ page[g].pending.id \in Cmds /\ told[page[g].pending.id].word # "none"
         /\ Word(page[g], s) \in {"sent", "refused", "unconfirmed", "waiting"}
         /\ Word(page[g], s) = "refused" => page[g].pending.id \in Over
<1>1. page[g].pending \in CmdFrames(told)
  BY PageFacts
<1>2. page[g].pending.id \in Cmds /\ told[page[g].pending.id].word # "none"
  BY <1>1 DEF CmdFrames
<1>3. s.answer \in Answers /\ Honest(s.answer, Over)
  BY DEF FullStates
<1>4. ASSUME Word(page[g], s) = "refused" PROVE page[g].pending.id \in Over
  <2>1. s.answer.id = page[g].pending.id /\ ~s.answer.ok
    BY <1>4 DEF Word
  <2>2. s.answer # NoCmd
    BY <1>2, <2>1, RemoteAssumption DEF NoCmd
  <2> QED
    BY <1>3, <2>1, <2>2 DEF Honest
<1> QED
  BY <1>2, <1>4 DEF Word

LEMMA ShownStays ==
  ASSUME Inv, NEW g \in Guests, page[g].st = "open", NEW i \in 1 .. Len(down[g]),
         down[g][i].t = "msg", Shown(g, down[g][i]), down' = [down EXCEPT ![g] = RemoveAt(@, i)],
         UNCHANGED <<setup, session, host, writers, jobs, relay, sock, ran>>
  PROVE  Inv'
<1> DEFINE f == down[g][i]
           word == IF page[g].pending = NoCmd THEN "waiting" ELSE Word(page[g], f.state)
           left == IF word = "waiting" THEN page[g].pending ELSE NoCmd
           r == [page[g] EXCEPT !.model = f.state, !.seq = f.seq, !.pending = left]
<1>1. f \in MsgFrames(Over)
  <2>1. f \in Frames(told, Over)
    BY PageFacts
  <2> QED
    BY <2>1 DEF Frames, Plain, CmdFrames
<1>2. f.state \in FullStates(Over) /\ f.seq \in Nat /\ f.state \in Snaps(Over)
  BY <1>1 DEF MsgFrames, Snaps
<1>3. page' = [page EXCEPT ![g] = r]
  <2>1. page' = [page EXCEPT ![g].model = f.state, ![g].seq = f.seq, ![g].pending = left]
    BY DEF Shown
  <2>2. page \in [Guests -> Page(told, Over)]
    BY PageFacts
  <2> QED
    BY <2>1, <2>2 DEF Page
<1>4. IF word = "waiting" THEN told' = told
      ELSE told' = [told EXCEPT ![page[g].pending.id].word = word]
  BY DEF Shown, Settled
<1>5. \/ word = "waiting"
      \/ /\ page[g].pending # NoCmd /\ page[g].pending.id \in Cmds
         /\ told[page[g].pending.id].word # "none" /\ word \in Words
         /\ word = "refused" => page[g].pending.id \in Over
  BY <1>2, WordFacts DEF Words
<1> HIDE DEF word
<1>6. Telling(told', Over) /\ Later(told, told')
  <2>1. CASE word = "waiting"
    BY <1>4, <2>1, PagesStay, LaterSelf
  <2>2. CASE word # "waiting"
    BY <1>4, <1>5, <2>2, SettledFacts
  <2> QED
    BY <2>1, <2>2
<1>7. left \in CmdFrames(told') \cup {NoCmd}
  BY <1>6, PageFacts, Widen
<1> HIDE DEF left, f
<1>8. r \in Page(told', Over) /\ r.st = "open"
  <2>1. page[g] \in Page(told', Over)
    BY <1>6, PagesStay, Widen DEF Pages
  <2> QED
    BY <1>2, <1>7, <2>1 DEF Page
<1> HIDE DEF r
<1>9. Pages(page', told', Over) /\ page'[g] = r /\ \A h \in Guests : h # g => page'[h] = page[h]
  BY <1>3, <1>6, <1>8, PageMoves
<1>10. Calm(g, told', Over)
  <2>1. NetOK(relay, sock, down, told', Over)
    BY <1>6, PagesStay, Widen
  <2>2. RemoveAt(down[g], i) \in Seq(Frames(told', Over))
    BY <2>1, Sides, RemoveFacts DEF NetOK
  <2>3. down' \in [Clients -> Seq(Frames(told', Over))]
    BY <2>1, <2>2 DEF NetOK
  <2>4. \A p \in Procs : down'[p] = down[p]
    BY <2>1, Sides DEF NetOK
  <2>5. Quiet(relay, relay', down, down')
    BY <2>4, LessSelf DEF Quiet
  <2> QED
    BY <2>1, <2>3, <2>5 DEF Calm, NetOK
<1>11. \A h \in Guests : page'[h].st = "hello" => page[h].st = "hello" /\ h # g
  BY <1>8, <1>9
<1> QED
  BY <1>6, <1>9, <1>10, <1>11, PageStays, Sides

LEMMA PageTakesFacts ==
  ASSUME Inv, NEW g \in Guests, page[g].st = "open", down[g] # <<>>
  PROVE  PageTakes(page[g], down[g][1]) \in Page(told, Over)
         /\ PageTakes(page[g], down[g][1]).st = "open"
<1> DEFINE f == down[g][1]
           pg == page[g]
<1>1. /\ f.t = "ready" => f.seq \in Nat
      /\ f.t = "presence" => f.host \in BOOLEAN
  BY FrameFacts, PageFacts
<1>2. pg \in Page(told, Over) /\ pg.st = "open" /\ pg.seq \in Nat /\ pg.retries \in Nat
      /\ pg.promised \in BOOLEAN
  BY PageFacts
<1> HIDE DEF f, pg
<1> DEFINE n == IF f.seq < 1 THEN pg.seq ELSE f.seq
           b == pg.promised \/ f.code = "offline"
<1>3. CASE f.t = "ready"
  <2>1. n \in Nat
    BY <1>1, <1>2, <1>3
  <2>2. PageTakes(pg, f) = [pg EXCEPT !.seq = n, !.retries = 0]
    BY <1>3 DEF PageTakes
  <2> HIDE DEF n
  <2> QED
    <3> DEFINE r == [pg EXCEPT !.seq = n, !.retries = 0]
    <3>1. r \in Page(told, Over) /\ r.st = pg.st
      BY <1>2, <2>1 DEF Page
    <3>2. PageTakes(pg, f) \in Page(told, Over) /\ PageTakes(pg, f).st = "open"
      BY <1>2, <2>2, <3>1
    <3> QED
      BY <3>2 DEF f, pg
<1>4. CASE f.t = "presence"
  <2>1. PageTakes(pg, f) = [pg EXCEPT !.host = f.host]
    BY <1>4 DEF PageTakes
  <2>2. PageTakes(pg, f) \in Page(told, Over) /\ PageTakes(pg, f).st = "open"
    BY <1>1, <1>2, <1>4, <2>1 DEF Page
  <2> QED
    BY <2>2 DEF f, pg
<1>5. CASE f.t = "error" /\ f.code = "auth"
  <2>1. PageTakes(pg, f) = [pg EXCEPT !.retries = pg.retries + 1]
    BY <1>5 DEF PageTakes
  <2>2. PageTakes(pg, f) \in Page(told, Over) /\ PageTakes(pg, f).st = "open"
    BY <1>2, <2>1 DEF Page
  <2> QED
    BY <2>2 DEF f, pg
<1>6. CASE f.t = "error" /\ f.code # "auth"
  <2>1. PageTakes(pg, f) = [pg EXCEPT !.promised = b]
    BY <1>6 DEF PageTakes
  <2>2. b \in BOOLEAN
    OBVIOUS
  <2> HIDE DEF b
  <2>3. PageTakes(pg, f) \in Page(told, Over) /\ PageTakes(pg, f).st = "open"
    BY <1>2, <2>1, <2>2 DEF Page
  <2> QED
    BY <2>3 DEF f, pg
<1>7. CASE f.t \notin {"ready", "presence", "error"}
  <2>1. PageTakes(pg, f) = pg
    BY <1>7 DEF PageTakes
  <2> QED
    BY <1>2, <2>1 DEF f, pg
<1> QED
  BY <1>3, <1>4, <1>5, <1>6, <1>7

LEMMA PageReadsStays == ASSUME Inv, NEW g \in Guests, PageReads(g) PROVE Inv'
<1> DEFINE f == down[g][1]
<1>1. UNCHANGED <<setup, session, host, writers, jobs, relay, ran>> /\ page[g].st = "open"
      /\ down[g] # <<>> /\ g \in Clients
  BY PageFacts DEF PageReads, hostVars
<1>2. CASE f.t = "msg"
  <2>1. PICK i \in Decrypted(g) : /\ Shown(g, down[g][i]) /\ UNCHANGED sock
                                  /\ down' = [down EXCEPT ![g] = RemoveAt(@, i)]
    BY <1>2 DEF PageReads
  <2>2. i \in 1 .. Len(down[g]) /\ down[g][i].t = "msg"
    BY PageFacts DEF Decrypted
  <2> QED
    BY <1>1, <2>1, <2>2, ShownStays
<1>3. CASE f.t # "msg" /\ Fails(f, page[g])
  <2> DEFINE r == [page[g] EXCEPT !.st = "fatal"]
  <2>1. r \in Page(told, Over) /\ r.st = "fatal"
    <3>1. page[g] \in Page(told, Over)
      BY PageFacts
    <3> QED
      BY <3>1 DEF Page
  <2>2. page' = [page EXCEPT ![g] = r] /\ HangUp(g) /\ told' = told
    BY <1>3 DEF PageReads
  <2> HIDE DEF r
  <2>3. Pages(page', told, Over) /\ page'[g] = r /\ \A h \in Guests : h # g => page'[h] = page[h]
    BY <2>1, <2>2, LaterSelf, PageMoves
  <2>4. Calm(g, told, Over)
    BY <1>1, <2>2, HangUpCalm
  <2>5. \A h \in Guests : page'[h].st = "hello" => page[h].st = "hello" /\ h # g
    BY <2>1, <2>3
  <2> QED
    BY <1>1, <2>2, <2>3, <2>4, <2>5, PagesStay, PageStays
<1>4. CASE f.t # "msg" /\ ~Fails(f, page[g])
  <2> DEFINE r == PageTakes(page[g], f)
  <2>1. r \in Page(told, Over) /\ r.st = "open"
    BY <1>1, PageTakesFacts
  <2>2. page' = [page EXCEPT ![g] = r] /\ down' = [down EXCEPT ![g] = Tail(@)]
        /\ told' = told /\ sock' = sock
    BY <1>4 DEF PageReads
  <2> HIDE DEF r
  <2>3. Pages(page', told, Over) /\ page'[g] = r /\ \A h \in Guests : h # g => page'[h] = page[h]
    BY <2>1, <2>2, LaterSelf, PageMoves
  <2>4. Calm(g, told, Over)
    BY <1>1, <2>2, ReadCalm
  <2>5. \A h \in Guests : page'[h].st = "hello" => page[h].st = "hello" /\ h # g
    BY <2>1, <2>3
  <2> QED
    BY <1>1, <2>2, <2>3, <2>4, <2>5, PagesStay, PageStays
<1> QED
  BY <1>2, <1>3, <1>4

\* A human commands.
LEMMA CommandStays == ASSUME Inv, NEW g \in Guests, NEW id \in Cmds, Command(g, id) PROVE Inv'
<1> DEFINE cmd == [t |-> "cmd", id |-> id, n |-> page[g].model.n]
           a == [word |-> "pending", to |-> page[g].model.p]
           r == [page[g] EXCEPT !.pending = cmd]
<1>1. page[g].model \in FullStates(Over)
  BY PageFacts DEF Command, Snaps
<1>2. a \in [word : Words, to : Procs] /\ cmd \in [t : {"cmd"}, id : Cmds, n : Nonces]
      /\ cmd.n.p = a.to /\ cmd.id = id /\ a.word = "pending"
  BY <1>1 DEF FullStates, Words
<1>3. /\ page' = [page EXCEPT ![g] = r] /\ told' = [told EXCEPT ![id] = a] /\ told[id].word = "none"
      /\ Write(g, cmd) /\ UNCHANGED <<setup, session, host, writers, jobs, ran>>
  BY DEF Command, hostVars
<1> HIDE DEF a, cmd
<1>4. Telling(told', Over) /\ Later(told, told') /\ told'[id] = a
  <2>1. /\ told \in [Cmds -> [word : {"none"}] \cup [word : Words, to : Procs]]
        /\ \A x \in Cmds : told[x].word = "refused" => x \in Over
    BY DEF Inv, Telling
  <2>2. /\ told' \in [Cmds -> [word : {"none"}] \cup [word : Words, to : Procs]]
        /\ told'[id] = a /\ \A x \in Cmds : x # id => told'[x] = told[x]
    BY <1>2, <1>3, <2>1
  <2> QED
    BY <1>2, <1>3, <2>1, <2>2 DEF Telling, Later
<1>5. cmd \in CmdFrames(told')
  BY <1>2, <1>4 DEF CmdFrames
<1>6. r \in Page(told', Over) /\ r.st = page[g].st
  <2>1. page[g] \in Page(told', Over)
    BY <1>4, PagesStay, Widen DEF Pages
  <2> QED
    BY <1>5, <2>1 DEF Page
<1> HIDE DEF r
<1>7. Pages(page', told', Over) /\ page'[g] = r /\ \A h \in Guests : h # g => page'[h] = page[h]
  BY <1>3, <1>4, <1>6, PageMoves
<1>8. \A h \in Guests : page'[h].st = "hello" => page[h].st = "hello"
  BY <1>6, <1>7
<1> QED
  BY <1>3, <1>4, <1>5, <1>7, <1>8, WrittenStays

----------------------------------------------------------------------------
(***************************************************************************)
(* The theorems.                                                           *)
(***************************************************************************)
LEMMA InitInv == Init => Inv
<1> SUFFICES ASSUME Init PROVE Inv
  OBVIOUS
<1>1. \A S : <<>> \in Seq(S) /\ Len(<<>>) = 0
  OBVIOUS
<1>2. NewClient \in Client /\ NewClient.last = NoCmd /\ NewClient.window = <<>>
      /\ NewClient.seen = {} /\ NewClient.forgotten = {}
  BY <1>1 DEF NewClient, Client, Answers
<1>3. Hosts(host, Over)
  BY <1>1, <1>2, RemoteAssumption DEF Init, Hosts, Honest
<1>4. Writers(writers, Over)
  BY <1>1 DEF Init, Writers
<1>5. NewPage \in Page(told, Over) /\ NewPage.st = "waiting"
  BY DEF NewPage, Page, Snaps
<1>6. Pages(page, told, Over) /\ \A g \in Guests : page[g].st # "hello"
  BY <1>5 DEF Init, Pages
<1>7. Telling(told, Over)
  BY DEF Init, Telling
<1>8. NetOK(relay, sock, down, told, Over)
  <2>1. /\ relay \in RelayRow(Over)
        /\ Len(relay.envelopes) <= KeepEnvelopes
    BY <1>1, RemoteAssumption DEF Init, Rows, RelayRow
  <2>2. /\ sock \in [Clients -> {"none", "open", "host", "guest"}]
        /\ \A c \in Clients : sock[c] = "none"
    BY DEF Init
  <2>3. down \in [Clients -> Seq(Frames(told, Over))]
    BY <1>1 DEF Init
  <2> QED
    BY <2>1, <2>2, <2>3 DEF NetOK
<1>9. Work(host, jobs, ran, told)
  BY <1>1, <1>2 DEF Init, Work, Begins
<1>10. Memory(relay, down, jobs, ran)
  <2>1. relay.commands = <<>> /\ \A p \in Procs : down[p] = <<>> /\ jobs[p] = {}
    BY Sides DEF Init
  <2>2. \A id \in Cmds : ran[id] = <<>>
    BY DEF Init
  <2> QED
    BY <1>1, <2>1, <2>2 DEF Memory, OnePlace, Has, Working
<1> QED
  BY <1>3, <1>4, <1>6, <1>7, <1>8, <1>9, <1>10 DEF Init, Inv

LEMMA StepInv == Inv /\ [Next]_vars => Inv'
<1> SUFFICES ASSUME Inv, [Next]_vars PROVE Inv'
  OBVIOUS
<1>1. CASE UNCHANGED vars
  <2>1. Over' = Over
    BY <1>1 DEF vars, hostVars, netVars, Over, Free, Gone, Working
  <2> QED
    BY <1>1, <2>1 DEF vars, hostVars, netVars, Inv
<1>2. ASSUME NEW c \in Clients, RelaySeesClose(c) \/ Break(c) PROVE Inv'
  BY <1>2, RelaySeesCloseStays, BreakStays
<1>3. ASSUME NEW p \in Procs, HostStep(p) PROVE Inv'
  <2>1. CASE SinkReturns(p)
    BY <2>1, AppliedStays DEF SinkReturns
  <2>3. CASE Checks(p)
    BY <2>3, CheckedStays DEF Checks
  <2>2. CASE WriterStep(p)
    BY <2>2, WriterWakesStays, WriterSealsStays, WriterSendsStays DEF WriterStep
  <2> QED
    BY <1>3, <2>1, <2>2, <2>3, DialStays, HelloStays, HelloAnsweredStays, ReconnectStays,
       ReadFrameStays DEF HostStep
<1>4. ASSUME NEW p \in Procs, StartClient(p) \/ Change(p) \/ Quit(p) PROVE Inv'
  BY <1>4, StartClientStays, ChangeStays, QuitStays
<1>5. ASSUME NEW p \in Procs, NEW reached \in BOOLEAN, Off(p, reached) PROVE Inv'
  BY <1>5, OffStays
<1>6. ASSUME NEW g \in Guests, PageStep(g) PROVE Inv'
  BY <1>6, ConnectStays, OpensStays, ResendsStays, PageClosesStays, PageReadsStays DEF PageStep
<1>7. ASSUME NEW g \in Guests, GivesUp(g) PROVE Inv'
  BY <1>7, GivesUpStays
<1>8. ASSUME NEW g \in Guests, NEW id \in Cmds, Command(g, id) PROVE Inv'
  BY <1>8, CommandStays
<1>9. CASE Expire
  BY <1>9, ExpireStays
<1> QED
  BY <1>1, <1>2, <1>3, <1>4, <1>5, <1>6, <1>7, <1>8, <1>9 DEF Next

\* The type invariant of the model, and what the invariant says of the commands.
LEMMA InvTypes == Inv => TypeOK
<1> SUFFICES ASSUME Inv PROVE TypeOK
  OBVIOUS
<1>1. FullStates(Over) \subseteq States /\ Snaps(Over) \subseteq States
  BY DEF FullStates, Snaps, States
<1>2. ASSUME NEW p \in Procs
      PROVE  /\ session[p] \in Nat
             /\ host[p].st \in {"off", "idle", "attached", "hello", "ready", "serving",
                                "stopped", "closed"}
             /\ Len(host[p].window) <= Window
             /\ \A n \in ToSet(host[p].window) : n.p = p /\ n.k <= host[p].nonce
             /\ host[p].last \in Answers
             /\ \A w \in ToSet(writers[p]) : w.pending \in BOOLEAN /\ w.snap \in States
             /\ \A j \in jobs[p] : j.n \in Nonces /\ j.st \in {"checking", "sink"}
  <2>1. host[p].st \in {"off", "idle", "attached", "hello", "ready", "serving",
                        "stopped", "closed"}
    BY HostFacts DEF Client
  <2>2. \A n \in ToSet(host[p].window) : n.p = p /\ n.k <= host[p].nonce
    BY HostFacts DEF ToSet
  <2>3. \A w \in ToSet(writers[p]) : w.pending \in BOOLEAN /\ w.snap \in States
    <3>1. \A w \in ToSet(writers[p]) : w \in Writer(Over)
      BY HostFacts DEF ToSet
    <3> QED
      BY <1>1, <3>1 DEF Writer
  <2>4. \A j \in jobs[p] : j.n \in Nonces /\ j.st \in {"checking", "sink"}
    BY DEF Inv, Work, Job
  <2> QED
    BY <2>1, <2>2, <2>3, <2>4, HostFacts
<1>3. relay.row \in {"none", "live", "revoked", "expired"} /\ relay.seq \in Nat
      /\ Len(relay.envelopes) <= KeepEnvelopes
  BY DEF Inv, NetOK, RelayRow, Rows
<1>4. \A c \in Clients : sock[c] \in {"none", "open", IF c \in Procs THEN "host" ELSE "guest"}
  BY Sides DEF Inv, NetOK
<1>5. \A g \in Guests : /\ page[g].st \in {"waiting", "hello", "resend", "open", "fatal"}
                        /\ page[g].model \in States
  BY <1>1, PageFacts
<1>6. setup \in Setups
  BY DEF Inv
<1> QED
  BY <1>2, <1>3, <1>4, <1>5, <1>6 DEF TypeOK

LEMMA InvRuns == Inv => RunsOnceWhereAddressed
<1> SUFFICES ASSUME Inv PROVE RunsOnceWhereAddressed
  OBVIOUS
<1>1. ASSUME NEW id \in Cmds
      PROVE  /\ \A p \in ToSet(ran[id]) : p = told[id].to
             /\ Len(ran[id]) > 1 => id \in relay.forgotten \cap host[told[id].to].forgotten
  <2>1. ran[id] \in Seq(Procs) /\ \A i \in 1 .. Len(ran[id]) : ran[id][i] = told[id].to
    BY DEF Inv, Work
  <2>2. \A p \in ToSet(ran[id]) : p = told[id].to
    BY <2>1 DEF ToSet
  <2>3. id \notin relay.forgotten => Len(ran[id]) <= 1
    BY DEF Inv, Memory, OnePlace
  <2>4. ran[id] # <<>> /\ id \notin host[told[id].to].forgotten => Len(ran[id]) = 1
    BY DEF Inv, Work
  <2> QED
    BY <2>1, <2>2, <2>3, <2>4
<1> QED
  BY <1>1, InvTypes DEF RunsOnceWhereAddressed

LEMMA InvRefused == Inv => RefusedHasNotRun
<1> SUFFICES ASSUME Inv, NEW id \in Cmds \ relay.forgotten, told[id].word = "refused"
             PROVE  ran[id] = <<>> /\ \A p \in Procs : \A j \in jobs[p] : j.id # id
  BY DEF RefusedHasNotRun
<1>1. id \in Over
  BY DEF Inv, Telling
<1> QED
  BY <1>1 DEF Over, Free, Working

\* Of remote control: whatever connection breaks, whichever process takes the room and
\* however many frames are lost or sent again, commands and states keep their shape, a
\* process begins only what was addressed to it, and nothing twice that it remembers; and
\* a command that the relay remembers is in one place.
THEOREM RemoteInvariant == Spec => []Inv
BY InitInv, StepInv, PTL DEF Spec

\* Of applyCommand: no command runs with a process its human did not see, nor twice unless
\* the relay and that process have both dropped its id.
THEOREM RunsOnceHolds == Spec => []RunsOnceWhereAddressed
<1>1. Inv => RunsOnceWhereAddressed
  BY InvRuns
<1> QED
  BY <1>1, RemoteInvariant, PTL

\* Of settlePending: a command that the phone calls refused has not run, and is not running,
\* as long as the relay remembers that it forwarded it.
THEOREM RefusedHasNotRunHolds == Spec => []RefusedHasNotRun
<1>1. Inv => RefusedHasNotRun
  BY InvRefused
<1> QED
  BY <1>1, RemoteInvariant, PTL
=============================================================================
