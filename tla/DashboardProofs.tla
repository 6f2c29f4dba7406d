-------------------------- MODULE DashboardProofs --------------------------
(***************************************************************************)
(* The bridge and the dashboard for any number of requests at a time, any  *)
(* replies and any statistics.  The invariant says of each request what    *)
(* its variables mean together; a step concerns one request, and Stop, of  *)
(* all of them, no more than the far end of their sockets.                 *)
(***************************************************************************)
EXTENDS Dashboard, FiniteSetTheorems, TLAPS

Commands == {"PING", "INFO", "ANALYZE"}

(* What the variables of a request say together: u its url, c the command  *)
(* it awaits, s the socket, p the peer, b the reply with n bytes arrived   *)
(* as m characters, v the statistics and code the status.                  *)
Sound(u, c, s, p, b, n, m, v, code) ==
  /\ u \in Urls \cup {None}
  /\ c \in Commands \cup {None}
  /\ s \in {"none", "connecting", "open", "closed"}
  /\ p \in {"none", "alive", "ended", "reset"}
  /\ code \in {None, 200, 404, 503}
  /\ v \in Versions \cup {None}
  /\ u # None <=> (c # None \/ code # None)
  /\ IF c = None THEN s = "none" ELSE s # "none" /\ code = None
  /\ s = "open" <=> p # "none"
  /\ b # <<>> => s = "open" /\ c \in Commands /\ b \in Replies[c]
  /\ b \in Seq(STRING)
  /\ n \in 0..Len(b)
  /\ m \in 0..n
  /\ u = "/api/dashboard" =>
       /\ c # "PING"
       /\ c = "INFO" /\ b # <<>> => v # None
       /\ c = "ANALYZE" \/ code = 200 => v # None

SoundRequests ==
  \A r \in Slots :
    Sound(url[r], stage[r], socket[r], peer[r], reply[r], arrived[r], units[r],
          info[r], status[r])

(* Every variable of the requests is a function on the slots. *)
PerSlot ==
  /\ url = [r \in Slots |-> url[r]]
  /\ stage = [r \in Slots |-> stage[r]]
  /\ socket = [r \in Slots |-> socket[r]]
  /\ peer = [r \in Slots |-> peer[r]]
  /\ reply = [r \in Slots |-> reply[r]]
  /\ arrived = [r \in Slots |-> arrived[r]]
  /\ units = [r \in Slots |-> units[r]]
  /\ info = [r \in Slots |-> info[r]]
  /\ status = [r \in Slots |-> status[r]]

BridgeInvariant ==
  /\ PerSlot
  /\ SoundRequests
  /\ up \in BOOLEAN
  /\ version \in Versions
  /\ whole

DashboardInvariant ==
  /\ BridgeInvariant
  /\ data \in Versions \cup {None}
  /\ online \in BOOLEAN
  /\ error \in BOOLEAN
  /\ online => data # None /\ ~error

(* What the assumptions say of the constants. *)
LEMMA Constants ==
  /\ MaxVersion \in Nat \ {0}
  /\ DOMAIN Replies = Commands
  /\ \A c \in Commands : \A b \in Replies[c] : b \in Seq(STRING)
  /\ \A b \in Replies["PING"] : \A i \in 1..Len(b) : b[i] = "eol" => i = Len(b)
  /\ \A b \in Replies["INFO"] \cup Replies["ANALYZE"] : b[1] = "$"
  /\ None \notin Urls /\ None \notin Commands /\ None \notin Versions
  /\ None \notin {200, 404, 503}
  /\ 1 \in Versions
  /\ "/api/dashboard" \in Urls
<1>1. MaxVersion \in Nat \ {0} /\ 1 \in Versions
  BY BridgeAssumption DEF Versions
<1>2. Replies \in [Commands -> SUBSET Seq(STRING)]
  BY BridgeAssumption DEF Commands
<1>3. \A c \in Commands : \A b \in Replies[c] : b \in Seq(STRING)
  BY <1>2
<1>4. \A b \in Replies["PING"] : \A i \in 1..Len(b) : b[i] = "eol" => i = Len(b)
  <2> SUFFICES ASSUME NEW b \in Replies["PING"]
               PROVE  DOMAIN b = 1..Len(b)
    BY BridgeAssumption
  <2> QED BY <1>3 DEF Commands
<1> QED
  BY <1>1, <1>2, <1>3, <1>4, BridgeAssumption, DashboardAssumption

(* A chunk of n bytes adds at most n characters to the response, and at    *)
(* least one if there is a byte.                                           *)
LEMMA NoMoreCharactersThanBytes ==
  ASSUME NEW chunk \in Seq(STRING), Len(chunk) > 0
  PROVE  Characters(chunk) \in 1..Len(chunk)
<1> DEFINE joined == {i \in 2..Len(chunk) : chunk[i] = "C" /\ chunk[i - 1] = "L"}
<1>1. Len(chunk) \in Nat
  OBVIOUS
<1>2. IsFiniteSet(2..Len(chunk)) /\ Cardinality(2..Len(chunk)) = Len(chunk) - 1
  <2>1. Cardinality(2..Len(chunk)) = IF 2 > Len(chunk) THEN 0 ELSE Len(chunk) - 2 + 1
    BY FS_Interval, <1>1
  <2> QED BY <1>1, <2>1, FS_Interval
<1>3. Cardinality(joined) \in Nat /\ Cardinality(joined) <= Len(chunk) - 1
  <2>1. joined \subseteq 2..Len(chunk)
    OBVIOUS
  <2> HIDE DEF joined
  <2> QED BY <1>2, <2>1, FS_Subset, FS_CardinalityType
<1> QED
  <2>1. Characters(chunk) = Len(chunk) - Cardinality(joined)
    BY DEF Characters
  <2> HIDE DEF joined
  <2> QED BY <1>1, <1>3, <2>1

(* Whatever sendCommand takes for a whole response is all of the reply.    *)
LEMMA CompleteIsWhole ==
  ASSUME NEW c \in Commands, NEW b \in Replies[c], NEW n \in 1..Len(b),
         NEW m \in 0..n, Complete(b, n, m)
  PROVE  n = Len(b)
<1>1. b \in Seq(STRING) /\ Len(b) \in Nat
  BY Constants
<1>2. PICK i \in 1..n : b[i] = "eol"
  BY DEF Complete
<1>3. CASE c = "PING"
  <2>1. i \in 1..Len(b)
    BY <1>1, <1>2
  <2>2. i = Len(b)
    BY <1>2, <1>3, <2>1, Constants
  <2> QED BY <1>1, <1>2, <2>2
<1>4. CASE c # "PING"
  <2>1. b[1] = "$"
    BY <1>4, Constants DEF Commands
  <2>2. m >= Len(b)
    BY <2>1 DEF Complete
  <2> QED BY <1>1, <2>2
<1> QED
  BY <1>3, <1>4

-----------------------------------------------------------------------------
(* A request that awaits a command, or none, after a step that settles     *)
(* nothing else of it than its status is sound.                            *)
LEMMA AwaitIsSound ==
  ASSUME BridgeInvariant, NEW r \in Slots,
         NEW c, NEW s \in {"none", "connecting", "closed"}, Await(r, c, s),
         NEW code, status' = [status EXCEPT ![r] = code],
         NEW u, url' = [url EXCEPT ![r] = u],
         Sound(u, c, s, "none", <<>>, 0, 0, info[r], code),
         UNCHANGED <<neuraCache, info, whole>>
  PROVE  BridgeInvariant'
<1> USE DEF BridgeInvariant, neuraCache
<1>1. PerSlot'
  BY DEF PerSlot, Await
<1>2. SoundRequests'
  <2> SUFFICES ASSUME NEW x \in Slots
               PROVE  Sound(url[x], stage[x], socket[x], peer[x], reply[x],
                            arrived[x], units[x], info[x], status[x])'
    BY DEF SoundRequests
  <2>1. CASE x = r
    <3>1. /\ url'[x] = u /\ stage'[x] = c /\ socket'[x] = s /\ peer'[x] = "none"
          /\ reply'[x] = <<>> /\ arrived'[x] = 0 /\ units'[x] = 0
          /\ info'[x] = info[r] /\ status'[x] = code
      BY <2>1 DEF PerSlot, Await
    <3> QED BY <3>1
  <2>2. CASE x # r
    <3>1. /\ url'[x] = url[x] /\ stage'[x] = stage[x] /\ socket'[x] = socket[x]
          /\ peer'[x] = peer[x] /\ reply'[x] = reply[x] /\ arrived'[x] = arrived[x]
          /\ units'[x] = units[x] /\ info'[x] = info[x] /\ status'[x] = status[x]
      BY <2>2 DEF PerSlot, Await
    <3> QED BY <3>1 DEF SoundRequests
  <2> QED BY <2>1, <2>2
<1> QED
  BY <1>1, <1>2

(* Requests go out and come back: a command is sent or an answer given.    *)
LEMMA RequestIsSound ==
  ASSUME BridgeInvariant, NEW r \in Slots, NEW u \in Urls, Request(r, u)
  PROVE  BridgeInvariant'
<1>1. /\ url[r] = None /\ status[r] = None /\ url' = [url EXCEPT ![r] = u]
      /\ info[r] \in Versions \cup {None} /\ u # None
  BY Constants DEF Request, BridgeInvariant, SoundRequests, Sound
<1>2. UNCHANGED <<neuraCache, info, whole>>
  BY DEF Request
<1>3. ASSUME NEW c \in Commands, sendCommand(r, c),
             u = "/api/dashboard" => c = "INFO"
      PROVE  BridgeInvariant'
  <2>1. status' = [status EXCEPT ![r] = None]
    BY <1>1, <1>3 DEF sendCommand, BridgeInvariant, PerSlot
  <2>2. Sound(u, c, "connecting", "none", <<>>, 0, 0, info[r], None)
    BY <1>1, <1>3, Constants DEF Sound, Commands
  <2>3. Await(r, c, "connecting")
    BY <1>3 DEF sendCommand
  <2> QED BY <1>1, <1>2, <2>1, <2>2, <2>3, AwaitIsSound
<1>4. ASSUME Respond(r, 404), u # "/api/dashboard"
      PROVE  BridgeInvariant'
  <2>1. Sound(u, None, "none", "none", <<>>, 0, 0, info[r], 404)
    BY <1>1, <1>4, Constants DEF Sound
  <2> QED BY <1>1, <1>2, <1>4, <2>1, AwaitIsSound DEF Respond
<1> QED
  BY <1>3, <1>4 DEF Request, Commands

(* A request that awaited something is answered 503. *)
LEMMA RejectedIsSound ==
  ASSUME BridgeInvariant, NEW r \in Slots, stage[r] # None, Rejected(r)
  PROVE  BridgeInvariant'
<1>1. Sound(url[r], None, "none", "none", <<>>, 0, 0, info[r], 503)
  <2>1. /\ url[r] \in Urls \cup {None} /\ url[r] # None
        /\ info[r] \in Versions \cup {None}
    BY DEF BridgeInvariant, SoundRequests, Sound
  <2> QED BY <2>1, Constants DEF Sound, Commands
<1>2. url' = [url EXCEPT ![r] = url[r]]
  BY DEF Rejected, BridgeInvariant, PerSlot
<1> QED
  BY <1>1, <1>2, AwaitIsSound DEF Rejected, Respond

(* A promise resolves with a whole reply: the handler goes on to ANALYZE   *)
(* with the statistics at hand, or answers 200.                            *)
LEMMA ResolvedIsSound ==
  ASSUME BridgeInvariant, NEW r \in Slots, reply[r] # <<>>, Resolved(r), whole',
         UNCHANGED <<neuraCache, url, info>>
  PROVE  BridgeInvariant'
<1>1. url' = [url EXCEPT ![r] = url[r]] /\ UNCHANGED <<neuraCache, info, whole>>
  BY DEF BridgeInvariant, PerSlot
<1>2. CASE stage[r] = "INFO" /\ sendCommand(r, "ANALYZE")
  <2>1. Sound(url[r], "ANALYZE", "connecting", "none", <<>>, 0, 0, info[r], status[r])
    BY <1>2, Constants DEF BridgeInvariant, SoundRequests, Sound, Commands
  <2>2. status' = [status EXCEPT ![r] = status[r]]
    BY <1>2 DEF sendCommand, BridgeInvariant, PerSlot
  <2> QED BY <1>1, <1>2, <2>1, <2>2, AwaitIsSound DEF sendCommand
<1>3. CASE stage[r] \in {"PING", "ANALYZE"} /\ Respond(r, 200)
  <2>1. Sound(url[r], None, "none", "none", <<>>, 0, 0, info[r], 200)
    BY <1>3, Constants DEF BridgeInvariant, SoundRequests, Sound, Commands
  <2>2. Await(r, None, "none") /\ status' = [status EXCEPT ![r] = 200]
    BY <1>3 DEF Respond
  <2> QED BY <1>1, <2>1, <2>2, AwaitIsSound
<1> QED
  BY <1>2, <1>3 DEF Resolved

(* A chunk arrives: the response resolves with all of the reply, or the    *)
(* handler waits for more.                                                 *)
LEMMA DataIsSound ==
  ASSUME BridgeInvariant, NEW r \in Slots, Data(r)
  PROVE  BridgeInvariant'
<1> DEFINE Length(n) ==
             units[r] + Characters(SubSeq(reply[r], arrived[r] + 1, n))
<1>1. /\ reply[r] \in Seq(STRING) /\ arrived[r] \in 0..Len(reply[r])
      /\ units[r] \in 0..arrived[r] /\ socket[r] = "open"
      /\ stage[r] \in Commands
      /\ reply[r] # <<>> => reply[r] \in Replies[stage[r]]
  BY DEF Data, BridgeInvariant, SoundRequests, Sound
<1>2. PICK n \in (arrived[r] + 1)..Len(reply[r]) :
        \/ /\ Complete(reply[r], n, Length(n))
           /\ Resolved(r)
           /\ whole' = (whole /\ n = Len(reply[r]))
        \/ /\ ~Complete(reply[r], n, Length(n))
           /\ arrived' = [arrived EXCEPT ![r] = n]
           /\ units' = [units EXCEPT ![r] = Length(n)]
           /\ UNCHANGED <<stage, socket, peer, reply, status, whole>>
  BY DEF Data
<1>3. UNCHANGED <<neuraCache, url, info>>
  BY DEF Data
<1>4. n \in 1..Len(reply[r]) /\ reply[r] # <<>>
  BY <1>1
<1>5. Length(n) \in 0..n
  <2>1. /\ SubSeq(reply[r], arrived[r] + 1, n) \in Seq(STRING)
        /\ Len(SubSeq(reply[r], arrived[r] + 1, n)) = n - arrived[r]
    BY <1>1
  <2>2. Characters(SubSeq(reply[r], arrived[r] + 1, n)) \in 1..(n - arrived[r])
    <3> DEFINE chunk == SubSeq(reply[r], arrived[r] + 1, n)
    <3>1. n - arrived[r] > 0
      BY <1>1
    <3> HIDE DEF chunk
    <3> QED BY <2>1, <3>1, NoMoreCharactersThanBytes DEF chunk
  <2> QED BY <1>1, <2>2
<1> HIDE DEF Length
<1>6. CASE Complete(reply[r], n, Length(n)) /\ Resolved(r)
           /\ whole' = (whole /\ n = Len(reply[r]))
  <2>1. n = Len(reply[r])
    BY <1>1, <1>4, <1>5, <1>6, CompleteIsWhole
  <2>2. whole'
    BY <1>6, <2>1 DEF BridgeInvariant
  <2> QED BY <1>3, <1>4, <1>6, <2>2, ResolvedIsSound
<1>7. CASE /\ arrived' = [arrived EXCEPT ![r] = n]
           /\ units' = [units EXCEPT ![r] = Length(n)]
           /\ UNCHANGED <<stage, socket, peer, reply, status, whole>>
  <2>1. PerSlot'
    BY <1>3, <1>7 DEF PerSlot, BridgeInvariant
  <2>2. SoundRequests'
    <3> SUFFICES ASSUME NEW x \in Slots
                 PROVE  Sound(url[x], stage[x], socket[x], peer[x], reply[x],
                              arrived[x], units[x], info[x], status[x])'
      BY DEF SoundRequests
    <3>1. Sound(url[x], stage[x], socket[x], peer[x], reply[x], arrived[x],
                units[x], info[x], status[x])
      BY DEF BridgeInvariant, SoundRequests
    <3>2. arrived'[x] \in 0..Len(reply[x]) /\ units'[x] \in 0..arrived'[x]
      BY <1>1, <1>4, <1>5, <1>7, <3>1 DEF BridgeInvariant, PerSlot, Sound
    <3> QED BY <1>3, <1>7, <3>1, <3>2 DEF Sound
  <2> QED BY <1>3, <1>7, <2>1, <2>2 DEF BridgeInvariant, neuraCache
<1> QED
  BY <1>2, <1>6, <1>7

(* NeuraCache accepts the connection, and then answers.                    *)
LEMMA ConnectIsSound ==
  ASSUME BridgeInvariant, NEW r \in Slots, Connect(r)
  PROVE  BridgeInvariant'
<1>1. PerSlot'
  BY DEF PerSlot, BridgeInvariant, Connect
<1>2. SoundRequests'
  <2> SUFFICES ASSUME NEW x \in Slots
               PROVE  Sound(url[x], stage[x], socket[x], peer[x], reply[x],
                            arrived[x], units[x], info[x], status[x])'
    BY DEF SoundRequests
  <2>1. Sound(url[x], stage[x], socket[x], peer[x], reply[x], arrived[x],
              units[x], info[x], status[x])
    BY DEF BridgeInvariant, SoundRequests
  <2>2. /\ socket'[x] = IF x = r THEN "open" ELSE socket[x]
        /\ peer'[x] = IF x = r THEN "alive" ELSE peer[x]
        /\ x = r => socket[x] = "connecting"
    BY DEF BridgeInvariant, PerSlot, Connect
  <2> QED BY <2>1, <2>2 DEF Connect, Sound
<1> QED
  BY <1>1, <1>2 DEF Connect, BridgeInvariant, neuraCache

(* An answer is one of the replies; that of INFO brings the statistics.    *)
LEMMA AnswerIsSound ==
  ASSUME BridgeInvariant, NEW r \in Slots, Answer(r)
  PROVE  BridgeInvariant'
<1>1. /\ socket[r] = "open" /\ reply[r] = <<>> /\ stage[r] \in Commands
      /\ version \in Versions
  BY DEF BridgeInvariant, SoundRequests, Sound, Answer
<1>2. PICK bytes \in Replies[stage[r]] : reply' = [reply EXCEPT ![r] = bytes]
  BY DEF Answer
<1>3. bytes \in Seq(STRING)
  BY <1>1, Constants
<1>4. PerSlot'
  BY <1>2 DEF PerSlot, BridgeInvariant, Answer
<1>5. SoundRequests'
  <2> SUFFICES ASSUME NEW x \in Slots
               PROVE  Sound(url[x], stage[x], socket[x], peer[x], reply[x],
                            arrived[x], units[x], info[x], status[x])'
    BY DEF SoundRequests
  <2>1. Sound(url[x], stage[x], socket[x], peer[x], reply[x], arrived[x],
              units[x], info[x], status[x])
    BY DEF BridgeInvariant, SoundRequests
  <2>2. UNCHANGED <<stage, socket, peer, arrived, units, url, status>>
    BY DEF Answer
  <2>3. CASE x = r
    <3>1. reply'[x] = bytes /\ arrived[x] = 0 /\ units[x] = 0
      BY <1>1, <1>2, <2>1, <2>3 DEF BridgeInvariant, PerSlot, Sound
    <3>2. info'[x] = IF stage[x] = "INFO" THEN version ELSE info[x]
      BY <2>3 DEF BridgeInvariant, PerSlot, Answer
    <3>3. version # None
      BY <1>1, Constants
    <3>4. 0 \in 0..Len(bytes) /\ 0 \in 0..0
      BY <1>3
    <3> QED BY <1>1, <1>3, <2>1, <2>2, <2>3, <3>1, <3>2, <3>3, <3>4 DEF Sound, Commands
  <2>4. CASE x # r
    <3>1. reply'[x] = reply[x] /\ info'[x] = info[x]
      BY <1>2, <2>4 DEF BridgeInvariant, PerSlot, Answer
    <3> QED BY <2>1, <2>2, <3>1
  <2> QED BY <2>3, <2>4
<1> QED
  BY <1>4, <1>5 DEF Answer, BridgeInvariant, neuraCache

(* Every step of a request towards its end.                                *)
LEMMA ProgressIsSound ==
  ASSUME BridgeInvariant, NEW r \in Slots, Progress(r)
  PROVE  BridgeInvariant'
<1>1. CASE Error(r) \/ Timeout(r)
  <2>1. stage[r] # None
    BY <1>1 DEF BridgeInvariant, SoundRequests, Sound, Error, Timeout, TimerRuns
  <2> QED BY <1>1, <2>1, RejectedIsSound DEF Error, Timeout
<1>2. CASE End(r)
  <2>1. /\ Await(r, stage[r], "closed") /\ UNCHANGED <<neuraCache, info, whole>>
        /\ url' = [url EXCEPT ![r] = url[r]]
        /\ status' = [status EXCEPT ![r] = status[r]]
    BY <1>2 DEF End, BridgeInvariant, PerSlot
  <2>2. Sound(url[r], stage[r], "closed", "none", <<>>, 0, 0, info[r], status[r])
    BY <1>2 DEF End, BridgeInvariant, SoundRequests, Sound
  <2> QED BY <2>1, <2>2, AwaitIsSound
<1> QED
  BY <1>1, <1>2, ConnectIsSound, DataIsSound, AnswerIsSound DEF Progress

(* A request is released once it has its response.                         *)
LEMMA ReleaseIsSound ==
  ASSUME BridgeInvariant, NEW r \in Slots, Release(r)
  PROVE  BridgeInvariant'
<1>1. PerSlot'
  BY DEF PerSlot, BridgeInvariant, Release, exchange
<1>2. SoundRequests'
  <2> SUFFICES ASSUME NEW x \in Slots
               PROVE  Sound(url[x], stage[x], socket[x], peer[x], reply[x],
                            arrived[x], units[x], info[x], status[x])'
    BY DEF SoundRequests
  <2>1. Sound(url[x], stage[x], socket[x], peer[x], reply[x], arrived[x],
              units[x], info[x], status[x])
    BY DEF BridgeInvariant, SoundRequests
  <2>2. /\ url'[x] = IF x = r THEN None ELSE url[x]
        /\ status'[x] = IF x = r THEN None ELSE status[x]
        /\ info'[x] = IF x = r THEN None ELSE info[x]
        /\ x = r => status[x] # None
    BY DEF BridgeInvariant, PerSlot, Release
  <2>3. None # "/api/dashboard"
    BY Constants
  <2> QED BY <2>1, <2>2, <2>3 DEF Release, exchange, Sound
<1> QED
  BY <1>1, <1>2 DEF Release, BridgeInvariant, neuraCache

(* NeuraCache stops, starts and changes.                                   *)
LEMMA EnvironmentIsSound ==
  ASSUME BridgeInvariant, Environment
  PROVE  BridgeInvariant'
<1>1. CASE Stop
  <2>1. PICK fate \in [{r \in Slots : peer[r] = "alive"} -> {"ended", "reset"}] :
          peer' = [r \in Slots |-> IF r \in DOMAIN fate THEN fate[r] ELSE peer[r]]
    BY <1>1 DEF Stop
  <2>2. UNCHANGED <<version, stage, socket, reply, arrived, units, url, info, status, whole>>
        /\ up' = FALSE
    BY <1>1 DEF Stop
  <2>3. PerSlot'
    BY <2>1, <2>2 DEF PerSlot, BridgeInvariant
  <2>4. SoundRequests'
    <3> SUFFICES ASSUME NEW x \in Slots
                 PROVE  Sound(url[x], stage[x], socket[x], peer[x], reply[x],
                              arrived[x], units[x], info[x], status[x])'
      BY DEF SoundRequests
    <3>1. Sound(url[x], stage[x], socket[x], peer[x], reply[x], arrived[x],
                units[x], info[x], status[x])
      BY DEF BridgeInvariant, SoundRequests
    <3>2. peer'[x] \in {"none", "alive", "ended", "reset"}
          /\ (peer'[x] = "none" <=> peer[x] = "none")
      BY <2>1, <3>1 DEF Sound
    <3> QED BY <2>2, <3>1, <3>2 DEF Sound
  <2> QED BY <2>2, <2>3, <2>4 DEF BridgeInvariant
<1>2. CASE Start \/ Change
  <2>1. UNCHANGED <<exchange, url, info, status, whole>>
    BY <1>2 DEF Start, Change
  <2>2. up' \in BOOLEAN /\ version' \in Versions
    <3>1. CASE Start
      BY <3>1 DEF Start, BridgeInvariant
    <3>2. CASE Change
      <4>1. MaxVersion \in Nat /\ version \in 1..MaxVersion /\ version < MaxVersion
        BY <3>2, BridgeAssumption DEF Change, Versions, BridgeInvariant
      <4>2. version + 1 \in Versions
        BY <4>1 DEF Versions
      <4> QED BY <3>2, <4>2 DEF Change, BridgeInvariant
    <3> QED BY <1>2, <3>1, <3>2
  <2> QED BY <2>1, <2>2 DEF BridgeInvariant, PerSlot, SoundRequests, exchange
<1> QED
  BY <1>1, <1>2 DEF Environment

-----------------------------------------------------------------------------
(* The invariant holds at the start ...                                    *)
LEMMA InvariantAtTheStart == DashboardInit => DashboardInvariant
<1> SUFFICES ASSUME DashboardInit
             PROVE  DashboardInvariant
  OBVIOUS
<1> USE DEF DashboardInit, BridgeInit
<1>1. PerSlot
  BY DEF PerSlot
<1>2. SoundRequests
  <2>1. Sound(None, None, "none", "none", <<>>, 0, 0, None, None)
    BY Constants DEF Sound
  <2> QED BY <2>1 DEF SoundRequests
<1> QED
  BY <1>1, <1>2, Constants DEF DashboardInvariant, BridgeInvariant

(* ... and no step breaks it: what the dashboard shows when it is online   *)
(* is the statistics of a response that had them.                          *)
LEMMA InvariantIsKept ==
  DashboardInvariant /\ [Next]_dashboardVars => DashboardInvariant'
<1> SUFFICES ASSUME DashboardInvariant, [Next]_dashboardVars
             PROVE  DashboardInvariant'
  OBVIOUS
<1>1. BridgeInvariant
  BY DEF DashboardInvariant
<1>2. ASSUME BridgeInvariant', UNCHANGED shown
      PROVE  DashboardInvariant'
  BY <1>2 DEF DashboardInvariant, shown
<1>3. CASE Environment /\ UNCHANGED shown
  BY <1>1, <1>2, <1>3, EnvironmentIsSound
<1>4. ASSUME NEW r \in Slots, Poll(r) \/ Visit(r)
      PROVE  DashboardInvariant'
  <2>1. PICK u \in Urls : Request(r, u) /\ UNCHANGED shown
    BY <1>4, Constants DEF Poll, Visit
  <2> QED BY <1>1, <1>2, <2>1, RequestIsSound
<1>5. ASSUME NEW r \in Slots, Step(r)
      PROVE  DashboardInvariant'
  <2>1. CASE Progress(r) /\ UNCHANGED shown
    BY <1>1, <1>2, <2>1, ProgressIsSound
  <2>2. CASE Apply(r)
    <3>1. BridgeInvariant'
      BY <1>1, <2>2, ReleaseIsSound DEF Apply
    <3>2. info[r] \in Versions /\ info[r] # None
      BY <1>1, <2>2, Constants DEF Apply, BridgeInvariant, SoundRequests, Sound
    <3> QED BY <2>2, <3>1, <3>2 DEF Apply, Displayed, DashboardInvariant
  <2>3. CASE Fail(r)
    <3>1. BridgeInvariant'
      BY <1>1, <2>3, ReleaseIsSound DEF Fail
    <3> QED BY <2>3, <3>1 DEF Fail, DashboardInvariant
  <2>4. CASE Release(r) /\ UNCHANGED shown
    BY <1>1, <1>2, <2>4, ReleaseIsSound
  <2> QED BY <1>5, <2>1, <2>2, <2>3, <2>4 DEF Step
<1>6. CASE UNCHANGED dashboardVars
  BY <1>6 DEF dashboardVars, bridgeVars, neuraCache, exchange, shown,
              DashboardInvariant, BridgeInvariant, PerSlot, SoundRequests
<1> QED
  BY <1>3, <1>4, <1>5, <1>6 DEF Next

(* It says of each request what the type invariant asks.                   *)
LEMMA InvariantGivesTypes == DashboardInvariant => DashboardTypeOK
<1> SUFFICES ASSUME DashboardInvariant
             PROVE  BridgeTypeOK
  BY DEF DashboardTypeOK, DashboardInvariant, BridgeInvariant
<1> USE DEF DashboardInvariant, BridgeInvariant
<1>1. /\ url \in [Slots -> Urls \cup {None}]
      /\ stage \in [Slots -> DOMAIN Replies \cup {None}]
      /\ socket \in [Slots -> {"none", "connecting", "open", "closed"}]
      /\ peer \in [Slots -> {"none", "alive", "ended", "reset"}]
      /\ status \in [Slots -> {None, 200, 404, 503}]
      /\ info \in [Slots -> Versions \cup {None}]
  BY Constants DEF PerSlot, SoundRequests, Sound
<1>2. ASSUME NEW r \in Slots
      PROVE  /\ url[r] # None <=> (stage[r] # None \/ status[r] # None)
             /\ stage[r] # None => socket[r] # "none" /\ status[r] = None
             /\ socket[r] = "open" <=> peer[r] # "none"
             /\ reply[r] # <<>> => socket[r] = "open" /\ reply[r] \in Replies[stage[r]]
             /\ arrived[r] \in 0..Len(reply[r])
             /\ units[r] \in 0..arrived[r]
             /\ status[r] = 200 /\ url[r] = "/api/dashboard" => info[r] # None
  BY DEF SoundRequests, Sound
<1> QED
  BY <1>1, <1>2 DEF BridgeTypeOK

(* The invariant holds always.                                             *)
LEMMA InvariantHolds == DashboardSpec => []DashboardInvariant
  BY InvariantAtTheStart, InvariantIsKept, PTL DEF DashboardSpec

(* What a request's url, promise, socket and statistics say together is    *)
(* consistent in every state, and a dashboard that says online shows       *)
(* statistics and no error.                                                *)
THEOREM DashboardTypeCorrect == DashboardSpec => []DashboardTypeOK
  BY InvariantHolds, InvariantGivesTypes, PTL

(* However many requests are open, whatever NeuraCache may answer with and *)
(* in whatever pieces it arrives, a promise resolves only with all of it.  *)
THEOREM OnlyWholeReplies == DashboardSpec => []ResolvesOnlyWithAllOfIt
<1>1. DashboardInvariant => ResolvesOnlyWithAllOfIt
  BY DEF DashboardInvariant, BridgeInvariant, ResolvesOnlyWithAllOfIt
<1> QED
  BY <1>1, InvariantHolds, PTL
=============================================================================
