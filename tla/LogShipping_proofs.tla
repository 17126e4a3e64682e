------------------------- MODULE LogShipping_proofs -------------------------
(***************************************************************************)
(* AtMostOnce, PostedInOrder, WebLinesRecognised and TypeOK for every      *)
(* instance of LogShipping: any number of files, links and containers, any *)
(* capacity of the channel, any number of restarts.                        *)
(*                                                                         *)
(* A line is gone when it left its reader: it is in the channel, in a      *)
(* request, or in the table.  No line is gone twice, because each reader   *)
(* is ahead of everything gone from what it reads: a tailer, because it    *)
(* opens its file at the end and no other target leads to the same file; a *)
(* stream, because it starts at the end of the container's log and at most *)
(* one stream of a container still reads.  The scanners of cancelled       *)
(* streams hold lines behind it, each of them once.                        *)
(***************************************************************************)
EXTENDS LogShipping, SequenceTheorems, FiniteSetTheorems, TLAPS

(* The inductive invariant.                                                *)

Src     == Files \cup Container
Service == {"container"} \cup UNION {{t.type : t \in Targets(cfg)} : cfg \in Config}
LineRec == [src : Src, n : 1..MaxLines, service : Service]
Held    == LineRec \cup {None}

Opening == [pc : {"opening"}, c : Container, cancelled : BOOLEAN]
Attached == [pc : {"open", "ended", "stuck"}, c : Container, cancelled : BOOLEAN,
            pos : Nat, end : Nat \cup {None}, hold : [Pipe -> Held]]

Connected(s) == streams[s].pc \in {"open", "ended", "stuck"}

Same(l, m) == l.src = m.src /\ l.n = m.n
Written(l) == l.n <= Len(logs[l.src])

Types ==
    /\ config \in Config
    /\ logs \in [Src -> Seq({"line"} \cup Kinds)]
    /\ \A x \in Src : Len(logs[x]) <= MaxLines
    /\ running \subseteq Container /\ active \subseteq Container /\ access \subseteq Lines
    /\ tails \in [Targets(config) -> Int] /\ tailHold \in [Targets(config) -> Held]
    /\ streams \in [Stream -> {Free} \cup Opening \cup Attached]
    /\ chan \in Seq(LineRec) /\ Len(chan) <= Cap
    /\ posting \in Held /\ requests \subseteq LineRec
    /\ stored \in [Src -> [1..MaxLines -> Nat]]

\* Where a line that left its reader may be.
Queued(x, n) == \E i \in DOMAIN chan : chan[i].src = x /\ chan[i].n = n
Posted(x, n) == stored[x][n] > 0 \/ \E r \in requests : r.src = x /\ r.n = n
Gone(x, n)   == Posted(x, n) \/ Queued(x, n)

\* Each line that is on its way is there once, and not stored yet.
Pipeline ==
    /\ \A i, j \in DOMAIN chan : Same(chan[i], chan[j]) => i = j
    /\ \A i \in DOMAIN chan : ~Posted(chan[i].src, chan[i].n)
    /\ \A l, m \in requests : Same(l, m) => l = m
    /\ \A l \in requests : stored[l.src][l.n] = 0
    /\ AtMostOnce

\* What is on its way was written before.
WrittenFirst ==
    /\ \A i \in DOMAIN chan : Written(chan[i])
    /\ \A l \in requests : Written(l)
    /\ posting # None => Written(posting)
    /\ \A x \in Src : \A n \in 1..MaxLines : Gone(x, n) => n <= Len(logs[x])

\* The channel has the lines of a file in order, after those that were posted.
FileOrder ==
    \A i \in DOMAIN chan : chan[i].src \in Files =>
        /\ \A j \in DOMAIN chan : i < j /\ chan[j].src = chan[i].src => chan[i].n < chan[j].n
        /\ \A n \in 1..MaxLines : Posted(chan[i].src, n) => n < chan[i].n

\* A tailer is ahead of everything that is gone of its file.
Tailers ==
    \A t \in Targets(config) :
        /\ tails[t] \in -1..Len(logs[RealPath[t.path]])
        /\ tails[t] = -1 => tailHold[t] = None
        /\ tails[t] # -1 => t.path \in Readable
        /\ tails[t] # -1 => \A n \in 1..MaxLines : Gone(RealPath[t.path], n) => n <= tails[t]
        /\ tailHold[t] # None =>
              /\ tailHold[t] = Line(RealPath[t.path], tails[t], t.type)
              /\ \A n \in 1..MaxLines : Gone(RealPath[t.path], n) => n < tails[t]

\* How far a stream may read.
Limit(s) == IF streams[s].end = None THEN Len(logs[streams[s].c]) ELSE streams[s].end

\* At most one stream of a container is not cancelled, and only of one with an entry.
OneStream ==
    /\ \A s \in Stream : streams[s] # Free /\ ~streams[s].cancelled => streams[s].c \in active
    /\ \A s, r \in Stream : /\ streams[s] # Free /\ ~streams[s].cancelled
                            /\ streams[r] # Free /\ ~streams[r].cancelled
                            /\ streams[s].c = streams[r].c
                            => s = r

\* That stream is ahead of all that is gone, or held, of its container.
Behind ==
    \A s \in Stream : Connected(s) =>
        /\ streams[s].pos <= Limit(s) /\ Limit(s) <= Len(logs[streams[s].c])
        /\ ~streams[s].cancelled =>
              /\ \A n \in 1..MaxLines : Gone(streams[s].c, n) => n <= streams[s].pos
              /\ \A r \in Stream : \A q \in Pipe :
                    /\ Connected(r) /\ streams[r].hold[q] # None
                    /\ streams[r].c = streams[s].c
                    => streams[r].hold[q].n <= streams[s].pos

\* What the scanners hold is not gone, and nobody else holds it.
Scanners ==
    \A s \in Stream : \A p \in Pipe : Connected(s) /\ streams[s].hold[p] # None =>
        /\ streams[s].hold[p].src = streams[s].c
        /\ Written(streams[s].hold[p])
        /\ ~Gone(streams[s].c, streams[s].hold[p].n)
        /\ \A r \in Stream : \A q \in Pipe :
              Connected(r) /\ streams[r].hold[q] # None /\ Same(streams[r].hold[q], streams[s].hold[p])
              => r = s /\ q = p

Recognised(l) ==
    \A p \in Readable :
        RealPath[p] = l.src /\ config.mode = "all"
        /\ Globs[p] \cap config.collectors \cap {"apache", "nginx"} # {}
        => WebService(l.service)

\* The names under which lines are posted.
Labels ==
    /\ \A i \in DOMAIN chan : Recognised(chan[i])
    /\ \A l \in requests : Recognised(l)

IInv == Types /\ Pipeline /\ WrittenFirst /\ FileOrder /\ Tailers /\ OneStream /\ Behind /\ Scanners /\ Labels
-----------------------------------------------------------------------------
(* Which files are tailed.                                                 *)

Found == {"apache", "nginx", "pm2", "system_core", "process_open_file", "filesystem_scan"}
ByName(services) == {HandLabel(p, services) : p \in Path}
Label == Found \cup ByName(<<"apache", "nginx", "pm2", "mysql">>) \cup ByName(<<"apache", "nginx", "mysql">>)
Candidate == [path : Path, type : Label]

LEMMA SetAsSeq ==
  ASSUME NEW S, IsFiniteSet(S)
  PROVE  /\ SetToSeq(S) \in Seq(S)
         /\ \A x \in S : \E i \in 1..Len(SetToSeq(S)) : SetToSeq(S)[i] = x
<1> DEFINE N == 1..Cardinality(S)
           s == SetToSeq(S)
<1>1. Cardinality(S) \in Nat /\ ExistsBijection(N, S)
  BY FS_CardinalityType
<1>2. s \in Injection(N, S)
  BY <1>1 DEF ExistsBijection, Bijection, Injection, SetToSeq
<1>3. IsFiniteSet(N) /\ Cardinality(N) = Cardinality(S)
  BY <1>1, FS_Interval
<1>4. s \in Surjection(N, S)
  BY <1>2, <1>3, FS_Injection
<1>5. s \in Seq(S) /\ Len(s) = Cardinality(S)
  BY <1>1, <1>2 DEF Injection
<1> QED
  BY <1>4, <1>5 DEF Surjection

LEMMA LabelledSeq ==
  ASSUME NEW S \in SUBSET Path, NEW type \in Found
  PROVE  /\ Labelled(type, S) \in Seq(Candidate)
         /\ \A i \in DOMAIN Labelled(type, S) : Labelled(type, S)[i].type = type
         /\ \A x \in S : \E i \in DOMAIN Labelled(type, S) : Labelled(type, S)[i].path = x
<1> DEFINE s == SetToSeq(S)
<1>1. IsFiniteSet(S)
  BY PathAssumption, FS_Subset
<1>2. s \in Seq(S) /\ \A x \in S : \E i \in 1..Len(s) : s[i] = x
  BY <1>1, SetAsSeq
<1>3. Len(s) \in Nat /\ \A i \in 1..Len(s) : s[i] \in Path
  BY <1>2
<1>4. Labelled(type, S) = [i \in 1..Len(s) |-> [path |-> s[i], type |-> type]]
  BY DEF Labelled
<1>5. type \in Label
  BY DEF Label
<1> HIDE DEF s
<1> DEFINE r == Labelled(type, S)
           k == Len(s)
<1>6. r \in [1..k -> Candidate] /\ k \in Nat
  BY <1>3, <1>4, <1>5 DEF Candidate
<1>7. \A i \in 1..k : r[i].path = s[i] /\ r[i].type = type
  BY <1>4
<1>8. \A x \in S : \E i \in 1..k : s[i] = x
  BY <1>2
<1> HIDE DEF r, k
<1>9. r \in Seq(Candidate) /\ DOMAIN r = 1..k
  BY <1>6
<1> QED
  BY <1>7, <1>8, <1>9 DEF r

LEMMA ByHandSeq ==
  ASSUME NEW paths \in Seq(Path), NEW services, ByName(services) \subseteq Label
  PROVE  ByHand(paths, services) \in Seq(Candidate)
<1>1. Len(paths) \in Nat /\ \A i \in 1..Len(paths) : paths[i] \in Path
  OBVIOUS
<1>2. \A i \in 1..Len(paths) : HandLabel(paths[i], services) \in Label
  BY <1>1 DEF ByName
<1>3. ByHand(paths, services) \in [1..Len(paths) -> Candidate]
  BY <1>1, <1>2 DEF ByHand, Candidate
<1> QED
  BY <1>1, <1>3

LEMMA EnabledSeq ==
  ASSUME NEW cfg, NEW service \in {"apache", "nginx", "pm2"}
  PROVE  /\ Enabled(cfg, service) \in Seq(Candidate)
         /\ \A i \in DOMAIN Enabled(cfg, service) : Enabled(cfg, service)[i].type = service
<1> DEFINE S == {p \in Readable : service \in Globs[p]}
<1>1. service \in Found /\ S \in SUBSET Path
  BY PathAssumption DEF Found
<1> HIDE DEF S
<1>2. /\ Labelled(service, S) \in Seq(Candidate)
      /\ \A i \in DOMAIN Labelled(service, S) : Labelled(service, S)[i].type = service
  BY <1>1, LabelledSeq
<1>3. CASE service \in cfg.collectors
  <2>1. Enabled(cfg, service) = Labelled(service, S)
    BY <1>3 DEF Enabled, FindServiceLogs, S
  <2> QED
    BY <1>2, <2>1 DEF S
<1>4. CASE service \notin cfg.collectors
  BY <1>4 DEF Enabled
<1> QED
  BY <1>3, <1>4

LEMMA EnabledHas ==
  ASSUME NEW cfg, NEW service \in {"apache", "nginx", "pm2"}, NEW p \in Readable,
         service \in cfg.collectors, service \in Globs[p]
  PROVE  \E i \in DOMAIN Enabled(cfg, service) : Enabled(cfg, service)[i].path = p
<1> DEFINE S == {q \in Readable : service \in Globs[q]}
<1>1. service \in Found /\ S \in SUBSET Path /\ p \in S
  BY PathAssumption DEF Found
<1>2. Enabled(cfg, service) = Labelled(service, S)
  BY DEF Enabled, FindServiceLogs
<1> HIDE DEF S
<1>3. \A x \in S : \E i \in DOMAIN Labelled(service, S) : Labelled(service, S)[i].path = x
  BY <1>1, LabelledSeq
<1> QED
  BY <1>1, <1>2, <1>3

LEMMA FindLogsSeq == FindLogs \in Seq(Candidate)
<1>1. /\ Labelled("system_core", Readable \cap Core) \in Seq(Candidate)
      /\ Labelled("process_open_file", Readable \cap (Opened \ Core)) \in Seq(Candidate)
      /\ Labelled("filesystem_scan", Readable \cap (Scanned \ (Opened \cup Core))) \in Seq(Candidate)
  BY PathAssumption, LabelledSeq DEF Found
<1> QED
  BY <1>1, ConcatProperties DEF FindLogs

LEMMA CandidatesSeq ==
  ASSUME NEW cfg \in Config
  PROVE  /\ Candidates(cfg) \in Seq(Candidate)
         /\ cfg.mode = "all" => \E rest \in Seq(Candidate) :
               Candidates(cfg) = (Enabled(cfg, "apache") \o Enabled(cfg, "nginx")) \o rest
<1> DEFINE a == Enabled(cfg, "apache")
           n == Enabled(cfg, "nginx")
           m == Enabled(cfg, "pm2")
           h == ByHand(cfg.selected, <<"apache", "nginx", "mysql">>)
           k == ByHand(cfg.selected, <<"apache", "nginx", "pm2", "mysql">>)
<1>1. a \in Seq(Candidate) /\ n \in Seq(Candidate) /\ m \in Seq(Candidate)
  BY EnabledSeq
<1>2. h \in Seq(Candidate) /\ k \in Seq(Candidate)
  BY ConfigAssumption, ByHandSeq DEF Label
<1>3. Candidates(cfg) = (CASE cfg.mode = "none" -> <<>> [] cfg.mode = "selected" -> k
                           [] OTHER -> a \o n \o m \o FindLogs) \o h
  BY DEF Candidates
<1> HIDE DEF a, n, m, h, k
<1>4. a \o n \o m \o FindLogs \in Seq(Candidate)
  BY <1>1, FindLogsSeq, ConcatProperties
<1>5. Candidates(cfg) \in Seq(Candidate)
  <2>1. <<>> \in Seq(Candidate)
    OBVIOUS
  <2>2. (CASE cfg.mode = "none" -> <<>> [] cfg.mode = "selected" -> k
           [] OTHER -> a \o n \o m \o FindLogs) \in Seq(Candidate)
    BY <1>2, <1>4, <2>1
  <2> QED
    BY <1>2, <1>3, <2>2, ConcatProperties
<1>6. ASSUME cfg.mode = "all"
      PROVE  Candidates(cfg) = (a \o n) \o (m \o (FindLogs \o h))
  <2>1. Candidates(cfg) = (((a \o n) \o m) \o FindLogs) \o h
    BY <1>3, <1>6
  <2>2. a \o n \in Seq(Candidate) /\ FindLogs \o h \in Seq(Candidate)
    BY <1>1, <1>2, FindLogsSeq, ConcatProperties
  <2> DEFINE w == a \o n
             v == w \o m
             u == FindLogs \o h
  <2>3. w \in Seq(Candidate) /\ u \in Seq(Candidate)
    BY <2>2
  <2> HIDE DEF w, u
  <2>4. v \in Seq(Candidate)
    BY <1>1, <2>3, ConcatProperties
  <2>5. v \o u = w \o (m \o u)
    <3>1. m \in Seq(Candidate)
      BY <1>1
    <3>2. (w \o m) \o u = w \o (m \o u)
      BY <2>3, <3>1, ConcatAssociative
    <3> QED
      BY <3>2
  <2> HIDE DEF v
  <2>6. (v \o FindLogs) \o h = v \o (FindLogs \o h)
    BY <1>2, <2>4, FindLogsSeq, ConcatAssociative
  <2> QED
    BY <2>1, <2>5, <2>6 DEF u, v, w
<1>7. m \o (FindLogs \o h) \in Seq(Candidate)
  BY <1>1, <1>2, FindLogsSeq, ConcatProperties
<1> QED
  BY <1>5, <1>6, <1>7 DEF a, n

LEMMA CanonicalIs == \A p \in Readable : p \in Path /\ Canonical(p) = RealPath[p]
BY PathAssumption DEF Canonical

LEMMA TargetFacts ==
  ASSUME NEW cfg \in Config
  PROVE  /\ \A t \in Targets(cfg) : t.path \in Path /\ RealPath[t.path] \in Files
         /\ \A t, u \in Targets(cfg) :
               /\ t.path \in Readable /\ u.path \in Readable
               /\ RealPath[t.path] = RealPath[u.path]
               => t = u
<1> DEFINE c == Candidates(cfg)
<1>1. c \in Seq(Candidate)
  BY CandidatesSeq
<1>2. /\ Len(c) \in Nat /\ DOMAIN c = 1..Len(c)
      /\ \A i \in 1..Len(c) : c[i] \in Candidate
  BY <1>1
<1>3. \A t \in Targets(cfg) : \E i \in 1..Len(c) :
         t = c[i] /\ \A j \in 1..(i - 1) : Canonical(c[j].path) # Canonical(c[i].path)
  BY <1>2 DEF Targets
<1> HIDE DEF c
<1>4. \A t \in Targets(cfg) : t.path \in Path
  BY <1>2, <1>3 DEF Candidate
<1>5. \A t \in Targets(cfg) : RealPath[t.path] \in Files
  BY <1>4 DEF Files
<1>6. ASSUME NEW t \in Targets(cfg), NEW u \in Targets(cfg),
             t.path \in Readable, u.path \in Readable, RealPath[t.path] = RealPath[u.path]
      PROVE  t = u
  <2>1. PICK i \in 1..Len(c) : t = c[i] /\ \A j \in 1..(i - 1) : Canonical(c[j].path) # Canonical(c[i].path)
    BY <1>3
  <2>2. PICK k \in 1..Len(c) : u = c[k] /\ \A j \in 1..(k - 1) : Canonical(c[j].path) # Canonical(c[k].path)
    BY <1>3
  <2>0. Canonical(t.path) = Canonical(u.path)
    BY <1>6, CanonicalIs
  <2>3. ~(i < k) /\ ~(k < i)
    BY <1>2, <2>0, <2>1, <2>2
  <2> QED
    BY <1>2, <2>1, <2>2, <2>3
<1> QED
  BY <1>4, <1>5, <1>6

\* In the mode "all" the files of the enabled web servers come first.
LEMMA WebTargets ==
  ASSUME NEW cfg \in Config, cfg.mode = "all", NEW t \in Targets(cfg), NEW p \in Readable,
         t.path \in Readable, RealPath[p] = RealPath[t.path],
         Globs[p] \cap cfg.collectors \cap {"apache", "nginx"} # {}
  PROVE  WebService(t.type)
<1> DEFINE c == Candidates(cfg)
           a == Enabled(cfg, "apache")
           n == Enabled(cfg, "nginx")
           w == a \o n
<1>1. /\ a \in Seq(Candidate) /\ \A i \in DOMAIN a : a[i].type = "apache"
      /\ n \in Seq(Candidate) /\ \A i \in DOMAIN n : n[i].type = "nginx"
  BY EnabledSeq
<1>2. \/ \E i \in DOMAIN a : a[i].path = p
      \/ \E i \in DOMAIN n : n[i].path = p
  <2>1. \/ "apache" \in cfg.collectors /\ "apache" \in Globs[p]
        \/ "nginx" \in cfg.collectors /\ "nginx" \in Globs[p]
    OBVIOUS
  <2> HIDE DEF a, n
  <2>2. "apache" \in cfg.collectors /\ "apache" \in Globs[p] => \E i \in DOMAIN a : a[i].path = p
    BY EnabledHas DEF a
  <2>3. "nginx" \in cfg.collectors /\ "nginx" \in Globs[p] => \E i \in DOMAIN n : n[i].path = p
    BY EnabledHas DEF n
  <2> QED
    BY <2>1, <2>2, <2>3
<1>3. c \in Seq(Candidate) /\ \E rest \in Seq(Candidate) : c = w \o rest
  BY CandidatesSeq
<1>4. PICK k \in DOMAIN c : t = c[k] /\ \A j \in 1..(k - 1) : Canonical(c[j].path) # Canonical(c[k].path)
  BY DEF Targets
<1> HIDE DEF c, a, n
<1>5. /\ Len(a) \in Nat /\ DOMAIN a = 1..Len(a) /\ Len(n) \in Nat /\ DOMAIN n = 1..Len(n)
  BY <1>1
<1>6. /\ w \in Seq(Candidate) /\ Len(w) = Len(a) + Len(n)
      /\ \A i \in 1..Len(w) : w[i] = IF i <= Len(a) THEN a[i] ELSE n[i - Len(a)]
  BY <1>1, ConcatProperties
<1>7. \A i \in 1..Len(w) : w[i].type \in {"apache", "nginx"}
  BY <1>1, <1>5, <1>6
<1>8. \E i \in 1..Len(w) : w[i].path = p
  <2>1. CASE \E i \in DOMAIN a : a[i].path = p
    BY <1>5, <1>6, <2>1
  <2>2. CASE \E i \in DOMAIN n : n[i].path = p
    <3>1. PICK i \in DOMAIN n : n[i].path = p
      BY <2>2
    <3>2. /\ Len(a) + i \in 1..Len(w) /\ ~(Len(a) + i <= Len(a)) /\ Len(a) + i - Len(a) = i
      BY <1>5, <1>6
    <3> QED
      BY <1>6, <3>1, <3>2
  <2> QED
    BY <1>2, <2>1, <2>2
<1> HIDE DEF w
<1>9. PICK rest \in Seq(Candidate) : c = w \o rest
  BY <1>3
<1>10. /\ Len(w) \in Nat /\ Len(rest) \in Nat /\ DOMAIN c = 1..Len(c)
       /\ Len(c) = Len(w) + Len(rest)
       /\ \A i \in 1..Len(w) : c[i] = w[i]
  <2>1. Len(w) \in Nat /\ Len(rest) \in Nat /\ DOMAIN c = 1..Len(c)
    BY <1>3, <1>6
  <2>2. /\ Len(w \o rest) = Len(w) + Len(rest)
        /\ \A i \in 1..(Len(w) + Len(rest)) : (w \o rest)[i] = IF i <= Len(w) THEN w[i] ELSE rest[i - Len(w)]
    <3>1. w \in Seq(Candidate) /\ rest \in Seq(Candidate)
      BY <1>6
    <3> QED
      BY <3>1, ConcatProperties
  <2> QED
    BY <1>9, <2>1, <2>2
<1>11. PICK i \in 1..Len(w) : w[i].path = p
  BY <1>8
<1>12. ~(i < k)
  <2>1. Canonical(p) = Canonical(t.path)
    BY CanonicalIs
  <2> QED
    BY <1>4, <1>10, <1>11, <2>1
<1>13. k \in 1..Len(w)
  BY <1>4, <1>10, <1>11, <1>12
<1> QED
  BY <1>4, <1>7, <1>10, <1>13 DEF WebService
-----------------------------------------------------------------------------
(* What the types say, in the form in which the steps need it.             *)

LEMMA Disjoint == Files \cap Container = {} /\ Files \subseteq Src /\ Container \subseteq Src
<1>1. Files \subseteq Path
  BY PathAssumption DEF Files
<1> QED
  BY <1>1, NameAssumption DEF Src

LEMMA LogFacts ==
  ASSUME Types
  PROVE  \A x \in Src : Len(logs[x]) \in Nat /\ DOMAIN logs[x] = 1..Len(logs[x]) /\ Len(logs[x]) <= MaxLines
BY DEF Types

LEMMA TailFacts ==
  ASSUME Types
  PROVE  /\ \A t \in Targets(config) : RealPath[t.path] \in Files /\ RealPath[t.path] \in Src /\ t.type \in Service
         /\ \A t, u \in Targets(config) :
               /\ t.path \in Readable /\ u.path \in Readable
               /\ RealPath[t.path] = RealPath[u.path]
               => t = u
<1>1. config \in Config
  BY DEF Types
<1>2. \A t \in Targets(config) : t.type \in Service
  BY <1>1 DEF Service
<1> QED
  BY <1>1, <1>2, TargetFacts, Disjoint

LEMMA ChanFacts ==
  ASSUME Types
  PROVE  /\ Len(chan) \in Nat /\ DOMAIN chan = 1..Len(chan)
         /\ \A i \in DOMAIN chan : /\ chan[i] \in LineRec /\ chan[i].src \in Src
                                   /\ chan[i].n \in 1..MaxLines
         /\ \A l \in requests : l \in LineRec /\ l.src \in Src /\ l.n \in 1..MaxLines
<1>1. chan \in Seq(LineRec) /\ requests \subseteq LineRec
  BY DEF Types
<1>2. \A l \in LineRec : l.src \in Src /\ l.n \in 1..MaxLines
  BY DEF LineRec
<1>3. Len(chan) \in Nat /\ DOMAIN chan = 1..Len(chan) /\ \A i \in DOMAIN chan : chan[i] \in LineRec
  BY <1>1
<1> QED
  BY <1>1, <1>2, <1>3

LEMMA StreamFacts ==
  ASSUME Types, NEW s \in Stream
  PROVE  /\ Connected(s) => /\ streams[s] \in Attached /\ streams[s] # Free
                            /\ streams[s].c \in Container /\ streams[s].c \in Src
                            /\ streams[s].pos \in Nat /\ streams[s].cancelled \in BOOLEAN
                            /\ \A p \in Pipe : streams[s].hold[p] \in Held
         /\ streams[s].pc = "opening" => streams[s] \in Opening /\ streams[s] # Free
         /\ streams[s] # Free => /\ streams[s].c \in Container /\ streams[s].c \in Src
                                 /\ streams[s].cancelled \in BOOLEAN
                                 /\ Connected(s) \/ streams[s].pc = "opening"
<1>1. streams[s] \in {Free} \cup Opening \cup Attached
  BY DEF Types
<1>2. CASE streams[s] = Free
  BY <1>2 DEF Free, Connected
<1>3. CASE streams[s] \in Opening
  BY <1>3, Disjoint DEF Free, Connected, Opening
<1>4. CASE streams[s] \in Attached
  BY <1>4, Disjoint DEF Free, Connected, Attached
<1> QED
  BY <1>1, <1>2, <1>3, <1>4

-----------------------------------------------------------------------------
(* Steps that leave a part of the state alone.                             *)

GoneKept == \A x \in Src : \A n \in 1..MaxLines : Gone(x, n)' => Gone(x, n)
LogsGrow == \A x \in Src : Len(logs[x])' \in Nat /\ Len(logs[x]) <= Len(logs[x])'

LEMMA PipeKept ==
  ASSUME UNCHANGED <<chan, requests, stored>>
  PROVE  /\ Pipeline => Pipeline'
         /\ FileOrder => FileOrder'
         /\ config' = config /\ Labels => Labels'
         /\ GoneKept
<1>1. /\ Pipeline => Pipeline'
      /\ FileOrder => FileOrder'
  BY DEF Pipeline, FileOrder, Posted, AtMostOnce
<1>2. config' = config /\ Labels => Labels'
  BY DEF Labels, Recognised
<1>3. GoneKept
  BY DEF GoneKept, Gone, Posted, Queued
<1> QED
  BY <1>1, <1>2, <1>3

LEMMA WrittenKept ==
  ASSUME Types, WrittenFirst, UNCHANGED <<chan, requests, stored>>, posting' \in {posting, None}, LogsGrow
  PROVE  WrittenFirst'
<1>1. GoneKept
  BY PipeKept
<1>2. \A i \in DOMAIN chan : Written(chan[i])'
  <2> TAKE i \in DOMAIN chan
  <2>1. chan[i].src \in Src /\ chan[i].n \in 1..MaxLines /\ Written(chan[i])
    BY ChanFacts DEF WrittenFirst
  <2> QED
    BY <2>1, LogFacts DEF LogsGrow, Written
<1>3. \A l \in requests : Written(l)'
  <2> TAKE l \in requests
  <2>1. l.src \in Src /\ l.n \in 1..MaxLines /\ Written(l)
    BY ChanFacts DEF WrittenFirst
  <2> QED
    BY <2>1, LogFacts DEF LogsGrow, Written
<1>4. posting' # None => Written(posting)'
  <2> HAVE posting' # None
  <2>1. posting' = posting /\ posting \in LineRec /\ Written(posting)
    BY DEF Types, Held, WrittenFirst
  <2> QED
    BY <2>1, LogFacts DEF LogsGrow, Written, LineRec
<1>5. \A x \in Src : \A n \in 1..MaxLines : Gone(x, n)' => n <= Len(logs[x])'
  BY <1>1, LogFacts DEF GoneKept, LogsGrow, WrittenFirst
<1> QED
  BY <1>2, <1>3, <1>4, <1>5 DEF WrittenFirst

LEMMA TailersKept ==
  ASSUME Types, Tailers, UNCHANGED <<config, readers>>, LogsGrow,
         \A x \in Files : \A n \in 1..MaxLines : Gone(x, n)' => Gone(x, n)
  PROVE  Tailers'
<1> SUFFICES ASSUME NEW t \in Targets(config)
             PROVE  /\ tails[t] \in -1..Len(logs[RealPath[t.path]])'
                    /\ tails[t] = -1 => tailHold[t] = None
                    /\ tails[t] # -1 => t.path \in Readable
                    /\ tails[t] # -1 => \A n \in 1..MaxLines : Gone(RealPath[t.path], n)' => n <= tails[t]
                    /\ tailHold[t] # None =>
                          /\ tailHold[t] = Line(RealPath[t.path], tails[t], t.type)
                          /\ \A n \in 1..MaxLines : Gone(RealPath[t.path], n)' => n < tails[t]
  BY DEF Tailers, readers
<1>1. RealPath[t.path] \in Files /\ RealPath[t.path] \in Src
  BY TailFacts
<1> QED
  BY <1>1, LogFacts DEF Tailers, LogsGrow

LEMMA StreamsKept ==
  ASSUME Types, OneStream, Behind, Scanners, UNCHANGED docker, LogsGrow,
         \A x \in Container : \A n \in 1..MaxLines : Gone(x, n)' => Gone(x, n)
  PROVE  OneStream' /\ Behind' /\ Scanners'
<1> USE DEF docker
<1>1. OneStream'
  BY DEF OneStream
<1>2. \A s \in Stream : Connected(s)' <=> Connected(s)
  BY DEF Connected
<1>3. Behind'
  <2> SUFFICES ASSUME NEW s \in Stream, Connected(s)
      PROVE /\ streams[s].pos <= Limit(s)' /\ Limit(s)' <= Len(logs[streams[s].c])'
            /\ ~streams[s].cancelled =>
                  /\ \A n \in 1..MaxLines : Gone(streams[s].c, n)' => n <= streams[s].pos
                  /\ \A r \in Stream : \A q \in Pipe :
                        /\ Connected(r) /\ streams[r].hold[q] # None
                        /\ streams[r].c = streams[s].c
                        => streams[r].hold[q].n <= streams[s].pos
    BY <1>2 DEF Behind
  <2>1. streams[s].c \in Container /\ streams[s].c \in Src /\ streams[s] \in Attached
    BY StreamFacts
  <2>2. streams[s].pos \in Nat /\ streams[s].end \in Nat \cup {None}
    BY <2>1 DEF Attached
  <2>3. streams[s].pos <= Limit(s)' /\ Limit(s)' <= Len(logs[streams[s].c])'
    BY <2>1, <2>2, LogFacts DEF Behind, Limit, LogsGrow
  <2> QED
    BY <2>1, <2>3 DEF Behind
<1>4. Scanners'
  <2> SUFFICES ASSUME NEW s \in Stream, NEW p \in Pipe, Connected(s), streams[s].hold[p] # None
      PROVE /\ streams[s].hold[p].src = streams[s].c
            /\ Written(streams[s].hold[p])'
            /\ ~Gone(streams[s].c, streams[s].hold[p].n)'
            /\ \A r \in Stream : \A q \in Pipe :
                  Connected(r) /\ streams[r].hold[q] # None /\ Same(streams[r].hold[q], streams[s].hold[p])
                  => r = s /\ q = p
    BY <1>2 DEF Scanners, Same
  <2>1. streams[s].c \in Container /\ streams[s].c \in Src /\ streams[s].hold[p] \in LineRec
    BY StreamFacts DEF Held
  <2>2. streams[s].hold[p].n \in 1..MaxLines
    BY <2>1 DEF LineRec
  <2>3. streams[s].hold[p].src = streams[s].c /\ Written(streams[s].hold[p])
    BY DEF Scanners
  <2>4. Written(streams[s].hold[p])'
    BY <2>1, <2>2, <2>3, LogFacts DEF Written, LogsGrow
  <2> QED
    BY <2>1, <2>2, <2>3, <2>4 DEF Scanners
<1> QED
  BY <1>1, <1>3, <1>4
-----------------------------------------------------------------------------
(* Lines enter the channel, move on to the server, and leave.              *)

LEMMA Put ==
  ASSUME Types, Pipeline, WrittenFirst, FileOrder, Labels,
         NEW l \in LineRec, Written(l), ~Gone(l.src, l.n), Recognised(l),
         l.src \in Files => \A n \in 1..MaxLines : Gone(l.src, n) => n < l.n,
         chan' = Append(chan, l), UNCHANGED <<config, logs, posting, server>>
  PROVE  /\ Pipeline' /\ WrittenFirst' /\ FileOrder' /\ Labels'
         /\ \A x \in Src : \A n \in 1..MaxLines : Gone(x, n)' => Gone(x, n) \/ (x = l.src /\ n = l.n)
<1> USE DEF server
<1>1. /\ Len(chan) \in Nat /\ DOMAIN chan = 1..Len(chan) /\ DOMAIN chan' = 1..(Len(chan) + 1)
      /\ \A i \in 1..Len(chan) : chan'[i] = chan[i] /\ i # Len(chan) + 1
      /\ chan'[Len(chan) + 1] = l
      /\ \A i \in DOMAIN chan' : i \in DOMAIN chan \/ i = Len(chan) + 1
  <2>1. chan \in Seq(LineRec)
    BY DEF Types
  <2> QED
    BY <2>1, AppendProperties
<1>2. \A x, n : Posted(x, n)' <=> Posted(x, n)
  BY DEF Posted
<1>3. \A x, n : Queued(x, n)' <=> Queued(x, n) \/ (x = l.src /\ n = l.n)
  BY <1>1 DEF Queued
<1>4. ~Posted(l.src, l.n) /\ ~Queued(l.src, l.n)
  BY DEF Gone
<1>5. Pipeline'
  <2>1. \A i, j \in DOMAIN chan' : Same(chan'[i], chan'[j]) => i = j
    BY <1>1, <1>4 DEF Pipeline, Same, Queued
  <2>2. (\A i \in DOMAIN chan : ~Posted(chan[i].src, chan[i].n))'
    BY <1>1, <1>4 DEF Pipeline, Posted
  <2>3. (\A i, j \in DOMAIN chan : Same(chan[i], chan[j]) => i = j)'
    BY <2>1 DEF Same
  <2> QED
    BY <2>2, <2>3 DEF Pipeline, AtMostOnce, Same
<1>6. \A x \in Src : \A n \in 1..MaxLines : Gone(x, n)' => Gone(x, n) \/ (x = l.src /\ n = l.n)
  BY <1>2, <1>3 DEF Gone
<1>7. WrittenFirst'
  <2>1. l.src \in Src /\ l.n \in 1..MaxLines /\ l.n <= Len(logs[l.src])
    BY DEF LineRec, Written
  <2>2. (\A i \in DOMAIN chan : Written(chan[i]))'
    BY <1>1, <2>1 DEF WrittenFirst, Written
  <2>3. \A x \in Src : \A n \in 1..MaxLines : Gone(x, n)' => n <= Len(logs[x])
    BY <1>6, <2>1 DEF WrittenFirst
  <2> QED
    BY <2>2, <2>3 DEF WrittenFirst, Written
<1>8. FileOrder'
  <2> SUFFICES ASSUME NEW i \in DOMAIN chan', chan'[i].src \in Files
               PROVE  /\ \A j \in DOMAIN chan' : i < j /\ chan'[j].src = chan'[i].src => chan'[i].n < chan'[j].n
                      /\ \A n \in 1..MaxLines : Posted(chan'[i].src, n) => n < chan'[i].n
    BY DEF FileOrder, Posted
  <2>1. CASE i = Len(chan) + 1
    <3>1. chan'[i] = l /\ ~\E j \in DOMAIN chan' : i < j
      BY <1>1, <2>1
    <3> QED
      BY <3>1 DEF Gone
  <2>2. CASE i \in DOMAIN chan
    <3>1. chan'[i] = chan[i] /\ chan[i].n \in 1..MaxLines /\ Queued(chan[i].src, chan[i].n)
      BY <1>1, <2>2, ChanFacts DEF Queued
    <3>2. ASSUME NEW j \in DOMAIN chan', i < j, chan'[j].src = chan'[i].src
          PROVE  chan'[i].n < chan'[j].n
      <4>1. CASE j = Len(chan) + 1
        BY <1>1, <3>1, <3>2, <4>1 DEF Gone
      <4>2. CASE j \in DOMAIN chan
        BY <1>1, <2>2, <3>1, <3>2, <4>2 DEF FileOrder
      <4> QED
        BY <1>1, <4>1, <4>2
    <3> QED
      BY <2>2, <3>1, <3>2 DEF FileOrder
  <2> QED
    BY <1>1, <2>1, <2>2
<1>9. Labels'
  BY <1>1 DEF Labels, Recognised
<1> QED
  BY <1>5, <1>6, <1>7, <1>8, <1>9

LEMMA Take ==
  ASSUME Types, Pipeline, WrittenFirst, FileOrder, Labels, SendLog
  PROVE  Pipeline' /\ WrittenFirst' /\ FileOrder' /\ Labels' /\ GoneKept
<1> USE DEF SendLog, host
<1>1. /\ Len(chan) \in Nat /\ DOMAIN chan = 1..Len(chan) /\ 1 \in DOMAIN chan
      /\ chan[1] \in LineRec /\ Head(chan) = chan[1]
      /\ DOMAIN chan' = 1..(Len(chan) - 1)
      /\ \A i \in DOMAIN chan' : i + 1 \in DOMAIN chan /\ chan'[i] = chan[i + 1] /\ i + 1 # 1
      /\ \A i \in DOMAIN chan : i = 1 \/ (i - 1 \in DOMAIN chan' /\ i = (i - 1) + 1)
  <2>1. chan \in Seq(LineRec)
    BY DEF Types
  <2> QED
    BY <2>1, HeadTailProperties
<1>2. posting' = chan[1] /\ requests' = requests \cup {chan[1]} /\ UNCHANGED <<stored, logs, config>>
  BY <1>1
<1>3. \A x, n : Posted(x, n)' <=> Posted(x, n) \/ (chan[1].src = x /\ chan[1].n = n)
  BY <1>2 DEF Posted
<1>4. \A x, n : Queued(x, n)' => Queued(x, n)
  BY <1>1 DEF Queued
<1>5. Queued(chan[1].src, chan[1].n)
  BY <1>1 DEF Queued
<1>6. GoneKept
  BY <1>3, <1>4, <1>5 DEF GoneKept, Gone
<1>7. \A i \in DOMAIN chan' : ~Same(chan'[i], chan[1])
  BY <1>1 DEF Pipeline
<1>8. Pipeline'
  <2>1. \A i, j \in DOMAIN chan' : Same(chan'[i], chan'[j]) => i = j
    BY <1>1 DEF Pipeline, Same
  <2>2. (\A i \in DOMAIN chan : ~Posted(chan[i].src, chan[i].n))'
    <3>1. \A i \in DOMAIN chan' : ~Posted(chan'[i].src, chan'[i].n)
      BY <1>1 DEF Pipeline
    <3> QED
      BY <1>2, <1>7, <3>1 DEF Posted, Same
  <2>3. \A l \in requests : ~Same(l, chan[1])
    BY <1>1 DEF Pipeline, Posted, Same
  <2>4. stored[chan[1].src][chan[1].n] = 0
    <3>1. stored[chan[1].src][chan[1].n] \in Nat
      BY <1>1 DEF Types, LineRec
    <3> QED
      BY <1>1, <3>1 DEF Pipeline, Posted
  <2>5. \A l, m \in requests' : Same(l, m) => l = m
    BY <1>2, <2>3 DEF Pipeline, Same
  <2>6. \A l \in requests' : stored'[l.src][l.n] = 0
    BY <1>2, <2>4 DEF Pipeline
  <2>7. (\A i, j \in DOMAIN chan : Same(chan[i], chan[j]) => i = j)'
    BY <2>1 DEF Same
  <2>8. AtMostOnce'
    BY <1>2 DEF Pipeline, AtMostOnce
  <2> QED
    BY <2>2, <2>5, <2>6, <2>7, <2>8 DEF Pipeline, Same
<1>9. WrittenFirst'
  <2>1. Written(chan[1])
    BY <1>1 DEF WrittenFirst
  <2>2. \A i \in DOMAIN chan' : Written(chan'[i])
    BY <1>1 DEF WrittenFirst
  <2> QED
    BY <1>2, <1>6, <2>1, <2>2 DEF WrittenFirst, Written, GoneKept
<1>10. FileOrder'
  <2> SUFFICES ASSUME NEW i \in DOMAIN chan', chan'[i].src \in Files
               PROVE  /\ \A j \in DOMAIN chan' : i < j /\ chan'[j].src = chan'[i].src => chan'[i].n < chan'[j].n
                      /\ \A n \in 1..MaxLines :
                            Posted(chan'[i].src, n) \/ (chan[1].src = chan'[i].src /\ chan[1].n = n) => n < chan'[i].n
    BY <1>2 DEF FileOrder, Posted
  <2>1. i + 1 \in DOMAIN chan /\ chan'[i] = chan[i + 1] /\ i \in Nat /\ 1 < i + 1
    BY <1>1
  <2>2. ASSUME NEW j \in DOMAIN chan', i < j, chan'[j].src = chan'[i].src
        PROVE  chan'[i].n < chan'[j].n
    <3>1. j + 1 \in DOMAIN chan /\ chan'[j] = chan[j + 1] /\ i + 1 < j + 1
      BY <1>1, <2>1, <2>2
    <3> QED
      BY <2>1, <2>2, <3>1 DEF FileOrder
  <2>3. ASSUME NEW n \in 1..MaxLines,
               Posted(chan'[i].src, n) \/ (chan[1].src = chan'[i].src /\ chan[1].n = n)
        PROVE  n < chan'[i].n
    BY <1>1, <2>1, <2>3 DEF FileOrder
  <2> QED
    BY <2>2, <2>3
<1>11. Labels'
  BY <1>1, <1>2 DEF Labels, Recognised
<1> QED
  BY <1>6, <1>8, <1>9, <1>10, <1>11

\* Whatever becomes of a posted line: it is not stored again.
LEMMA Answer ==
  ASSUME Types, Pipeline, WrittenFirst, FileOrder, Labels, NEW l \in requests, Serve(l)
  PROVE  Pipeline' /\ WrittenFirst' /\ FileOrder' /\ Labels' /\ GoneKept
<1>1. /\ requests' = requests \ {l} /\ UNCHANGED <<config, logs, chan, posting>>
      /\ stored' \in {stored, [stored EXCEPT ![l.src][l.n] = @ + 1]}
  BY DEF Serve, HandleLogs, RequestLost, host
<1>2. l.src \in Src /\ l.n \in 1..MaxLines /\ stored[l.src][l.n] = 0
  BY ChanFacts DEF Pipeline
<1>3. \A x \in Src : \A n \in 1..MaxLines :
         stored'[x][n] = stored[x][n] \/ (x = l.src /\ n = l.n /\ stored'[x][n] = 1)
  <2>1. stored \in [Src -> [1..MaxLines -> Nat]]
    BY DEF Types
  <2>2. CASE stored' = [stored EXCEPT ![l.src][l.n] = @ + 1]
    <3> TAKE x \in Src
    <3> TAKE n \in 1..MaxLines
    <3>1. CASE x = l.src
      <4>1. stored'[x] = [stored[x] EXCEPT ![l.n] = @ + 1]
        BY <1>2, <2>1, <2>2, <3>1
      <4> QED
        BY <1>2, <2>1, <3>1, <4>1
    <3>2. CASE x # l.src
      BY <1>2, <2>1, <2>2, <3>2
    <3> QED
      BY <3>1, <3>2
  <2> QED
    BY <1>1, <2>2
<1>4. \A x \in Src : \A n \in 1..MaxLines : Posted(x, n)' => Posted(x, n)
  BY <1>1, <1>3 DEF Posted
<1>5. GoneKept
  BY <1>1, <1>4 DEF GoneKept, Gone, Queued
<1>6. Pipeline'
  <2>1. (\A i \in DOMAIN chan : ~Posted(chan[i].src, chan[i].n))'
    <3>1. \A i \in DOMAIN chan : chan[i].src \in Src /\ chan[i].n \in 1..MaxLines
                                 /\ ~Posted(chan[i].src, chan[i].n)
      BY ChanFacts DEF Pipeline
    <3> QED
      BY <1>1, <1>3, <3>1 DEF Posted
  <2>2. \A m \in requests' : stored'[m.src][m.n] = 0
    <3> TAKE m \in requests'
    <3>1. m \in requests /\ m # l /\ ~Same(m, l) /\ m.src \in Src /\ m.n \in 1..MaxLines
      BY <1>1, ChanFacts DEF Pipeline
    <3> QED
      BY <1>3, <3>1 DEF Pipeline, Same
  <2>3. AtMostOnce'
    BY <1>3 DEF Pipeline, AtMostOnce, Src
  <2> QED
    BY <1>1, <2>1, <2>2, <2>3 DEF Pipeline, Same
<1>7. WrittenFirst'
  BY <1>1, <1>5 DEF WrittenFirst, Written, GoneKept
<1>8. FileOrder'
  <2>1. Files \subseteq Src
    BY Disjoint
  <2> QED
    BY <1>1, <1>4, <2>1 DEF FileOrder
<1>9. Labels'
  BY <1>1 DEF Labels, Recognised
<1> QED
  BY <1>5, <1>6, <1>7, <1>8, <1>9
-----------------------------------------------------------------------------
(* Types.                                                                  *)

LEMMA TypesHost ==
  ASSUME Types, Host
  PROVE  Types'
<1> USE DEF host, readers, docker, server
<1>1. ASSUME NEW x \in Src, NEW kind \in {"line"} \cup Kinds, Write(x, kind)
      PROVE  Types'
  <2>1. logs' \in [Src -> Seq({"line"} \cup Kinds)] /\ \A y \in Src : Len(logs'[y]) <= MaxLines
    <3>1. Append(logs[x], kind) \in Seq({"line"} \cup Kinds) /\ Len(Append(logs[x], kind)) = Len(logs[x]) + 1
      BY AppendProperties DEF Types
    <3>2. Len(logs[x]) < MaxLines /\ logs' = [logs EXCEPT ![x] = Append(logs[x], kind)]
      BY <1>1 DEF Write, Types
    <3>3. Len(logs[x]) + 1 <= MaxLines
      BY <3>2, LogFacts, BoundsAssumption
    <3> QED
      BY <3>1, <3>2, <3>3 DEF Types
  <2> QED
    BY <1>1, <2>1 DEF Write, Types
<1>2. ASSUME NEW c \in Container, StartContainer(c)
      PROVE  Types'
  BY <1>2 DEF StartContainer, Types
<1>3. ASSUME NEW c \in Container, StopContainer(c)
      PROVE  Types'
  <2>1. streams' \in [Stream -> {Free} \cup Opening \cup Attached]
    <3> SUFFICES ASSUME NEW s \in Stream
                 PROVE  streams'[s] \in {Free} \cup Opening \cup Attached
      BY <1>3 DEF StopContainer
    <3>1. streams[s] \in {Free} \cup Opening \cup Attached
      BY DEF Types
    <3>2. CASE streams[s].pc = "open" /\ streams[s].c = c /\ streams[s].end = None
      <4>1. streams[s] \in Attached /\ Len(logs[c]) \in Nat
        BY <3>2, StreamFacts, LogFacts, Disjoint DEF Connected
      <4>2. [streams[s] EXCEPT !.end = Len(logs[c])] \in Attached
        BY <4>1 DEF Attached
      <4> QED
        BY <1>3, <3>2, <4>2 DEF StopContainer
    <3>3. CASE ~(streams[s].pc = "open" /\ streams[s].c = c /\ streams[s].end = None)
      BY <1>3, <3>1, <3>3 DEF StopContainer
    <3> QED
      BY <3>2, <3>3
  <2> QED
    BY <1>3, <2>1 DEF StopContainer, Types
<1> QED
  BY <1>1, <1>2, <1>3 DEF Host, Src

LEMMA TypesTail ==
  ASSUME Types, WrittenFirst, Tailers, NEW t \in Targets(config), Tailing(t) \/ SendTail(t)
  PROVE  Types'
<1> USE DEF host, readers, docker, server
<1>0. RealPath[t.path] \in Src /\ t.type \in Service
  BY TailFacts
<1>1. CASE TailFile(t)
  BY <1>0, <1>1, LogFacts DEF TailFile, Types
<1>2. CASE ReadLine(t)
  <2>1. tails[t] + 1 \in 1..MaxLines
    BY <1>0, <1>2, LogFacts, BoundsAssumption DEF ReadLine, Tailers
  <2>2. Line(RealPath[t.path], tails[t] + 1, t.type) \in Held
    BY <1>0, <2>1 DEF Line, Held, LineRec
  <2>3. tails' \in [Targets(config) -> Int] /\ tailHold' \in [Targets(config) -> Held]
    BY <1>2, <2>2 DEF ReadLine, Types
  <2> QED
    BY <1>2, <2>3 DEF ReadLine, Types
<1>3. CASE SendTail(t)
  <2>1. tailHold[t] \in LineRec
    BY <1>3 DEF SendTail, Types, Held
  <2>2. chan \in Seq(LineRec) /\ Len(chan) \in Nat /\ Len(chan) < Cap
    BY <1>3 DEF Types, SendTail
  <2>3. chan' \in Seq(LineRec) /\ Len(chan') <= Cap
    BY <1>3, <2>1, <2>2, AppendProperties, CapAssumption DEF SendTail
  <2>4. tailHold' \in [Targets(config) -> Held]
    BY <1>3 DEF SendTail, Types, Held
  <2> QED
    BY <1>3, <2>3, <2>4 DEF SendTail, Types
<1> QED
  BY <1>1, <1>2, <1>3 DEF Tailing

LEMMA NewStreamsIs ==
  ASSUME Types, NEW S \in SUBSET Container, NewStreams(S)
  PROVE  /\ \A s \in Stream :
               \/ /\ streams[s] = Free
                  /\ \E c \in S : streams'[s] = [pc |-> "opening", c |-> c, cancelled |-> FALSE]
               \/ /\ streams[s] # Free /\ streams[s].c \in active \ running
                  /\ streams'[s] = [streams[s] EXCEPT !.cancelled = TRUE]
               \/ /\ streams[s] = Free \/ streams[s].c \notin active \ running
                  /\ streams'[s] = streams[s]
         /\ \A s, r \in Stream : /\ streams[s] = Free /\ streams[r] = Free
                                 /\ streams'[s] # Free /\ streams'[s] = streams'[r]
                                 => s = r
<1>1. PICK slot \in Injection(S, {s \in Stream : streams[s] = Free}) :
       streams' = [s \in Stream |->
           IF s \in Range(slot)
           THEN [pc |-> "opening", c |-> CHOOSE c \in S : slot[c] = s, cancelled |-> FALSE]
           ELSE IF streams[s] # Free /\ streams[s].c \in active \ running
           THEN [streams[s] EXCEPT !.cancelled = TRUE]
           ELSE streams[s]]
  BY DEF NewStreams
<1>2. \A r \in Range(slot) : streams[r] = Free /\ \E c \in S : slot[c] = r
  BY <1>1 DEF Injection, Range
<1>3. \A r \in Range(slot) : (CHOOSE c \in S : slot[c] = r) \in S /\ slot[CHOOSE c \in S : slot[c] = r] = r
  BY <1>2
<1>4. ASSUME NEW s \in Stream
      PROVE  \/ /\ streams[s] = Free
                /\ \E c \in S : streams'[s] = [pc |-> "opening", c |-> c, cancelled |-> FALSE]
             \/ /\ streams[s] # Free /\ streams[s].c \in active \ running
                /\ streams'[s] = [streams[s] EXCEPT !.cancelled = TRUE]
             \/ /\ streams[s] = Free \/ streams[s].c \notin active \ running
                /\ streams'[s] = streams[s]
  <2>1. CASE s \in Range(slot)
    BY <1>1, <1>2, <1>3, <2>1
  <2>2. CASE s \notin Range(slot)
    BY <1>1, <2>2
  <2> QED
    BY <2>1, <2>2
<1>5. ASSUME NEW s \in Stream, NEW r \in Stream, streams[s] = Free, streams[r] = Free,
             streams'[s] # Free, streams'[s] = streams'[r]
      PROVE  s = r
  <2>1. s \in Range(slot) /\ r \in Range(slot)
    BY <1>1, <1>5
  <2>2. /\ streams'[s].c = CHOOSE c \in S : slot[c] = s
        /\ streams'[r].c = CHOOSE c \in S : slot[c] = r
    BY <1>1, <2>1
  <2> QED
    BY <1>3, <1>5, <2>1, <2>2
<1> QED
  BY <1>4, <1>5

LEMMA ReadOn ==
  ASSUME NEW q \in Attached, NEW n \in Nat, NEW h \in [Pipe -> Held]
  PROVE  [q EXCEPT !.pos = n, !.hold = h] \in Attached
<1>1. [q EXCEPT !.pos = n] \in Attached
  BY DEF Attached
<1> QED
  BY <1>1 DEF Attached

LEMMA TypesStreams ==
  ASSUME Types, WrittenFirst, Behind, NEW s \in Stream,
         Following(s) \/ \E p \in Pipe : SendScanned(s, p)
  PROVE  Types'
<1> USE DEF host, readers, docker, server
<1>0. Free \in {Free} \cup Opening \cup Attached
  OBVIOUS
<1>1. CASE OpenStream(s)
  <2> DEFINE c == streams[s].c
             n == Len(logs[streams[s].c])
  <2>1. c \in Container /\ n \in Nat
    BY <1>1, StreamFacts, LogFacts DEF OpenStream
  <2>2. streams' = [streams EXCEPT ![s] =
                       [pc |-> "open", c |-> c, cancelled |-> FALSE, pos |-> n,
                        end |-> IF c \in running THEN None ELSE n, hold |-> [p \in Pipe |-> None]]]
    BY <1>1 DEF OpenStream, Types
  <2> HIDE DEF c, n
  <2>3. [pc |-> "open", c |-> c, cancelled |-> FALSE, pos |-> n,
         end |-> IF c \in running THEN None ELSE n, hold |-> [p \in Pipe |-> None]] \in Attached
    BY <2>1 DEF Attached, Held
  <2>4. streams' \in [Stream -> {Free} \cup Opening \cup Attached]
    BY <2>2, <2>3 DEF Types
  <2> QED
    BY <1>1, <2>4 DEF OpenStream, Types
<1>2. CASE OpenFails(s)
  BY <1>2 DEF OpenFails, Types
<1>3. CASE Copy(s)
  <2> DEFINE n == streams[s].pos + 1
             kind == logs[streams[s].c][n]
             r == [streams[s] EXCEPT !.pos = n, !.hold[kind] = Line(streams[s].c, n, "container")]
  <2>1. streams[s] \in Attached /\ streams[s].c \in Src /\ streams[s].pos < Limit(s)
    BY <1>3, StreamFacts DEF Copy, Connected, Limit
  <2>2. n \in 1..MaxLines
    <3>1. Connected(s) /\ streams[s].pos \in Nat
      BY <1>3, <2>1 DEF Connected, Copy, Attached
    <3>2. Limit(s) <= Len(logs[streams[s].c])
      BY <3>1 DEF Behind
    <3>3. Limit(s) \in Nat
      BY <2>1, LogFacts DEF Limit, Attached
    <3> QED
      BY <2>1, <3>1, <3>2, <3>3, LogFacts, BoundsAssumption
  <2>3. kind \in Pipe /\ streams' = [streams EXCEPT ![s] = r]
    BY <1>3, <2>1 DEF Copy, Types
  <2>4. Line(streams[s].c, n, "container") \in Held
    BY <2>1, <2>2 DEF Line, Held, LineRec, Service
  <2> HIDE DEF kind, n
  <2>5. r \in Attached
    <3> DEFINE h == [streams[s].hold EXCEPT ![kind] = Line(streams[s].c, n, "container")]
    <3>1. h \in [Pipe -> Held]
      BY <2>1, <2>3, <2>4 DEF Attached
    <3> DEFINE q == streams[s]
    <3>2. r = [q EXCEPT !.pos = n, !.hold = h]
      BY <2>1, <2>3 DEF Attached
    <3>3. q \in Attached /\ n \in Nat
      BY <2>1, <2>2
    <3> HIDE DEF h, r, q
    <3>4. [q EXCEPT !.pos = n, !.hold = h] \in Attached
      BY <3>1, <3>3, ReadOn, Zenon
    <3> QED
      BY <3>2, <3>4, Zenon
  <2>6. streams' \in [Stream -> {Free} \cup Opening \cup Attached]
    BY <2>3, <2>5 DEF Types
  <2> QED
    BY <1>3, <2>6 DEF Copy, Types
<1>4. CASE Overlong(s)
  <2>1. streams[s] \in Attached
    BY <1>4, StreamFacts DEF Overlong, Connected
  <2>2. [streams[s] EXCEPT !.pc = "stuck"] \in Attached
    BY <2>1 DEF Attached
  <2> QED
    BY <1>4, <2>2 DEF Overlong, Types
<1>5. CASE StreamEnds(s)
  <2>1. streams[s] \in Attached
    BY <1>5, StreamFacts DEF StreamEnds, Connected
  <2>2. [streams[s] EXCEPT !.pc = "ended"] \in Attached
    BY <2>1 DEF Attached
  <2> QED
    BY <1>5, <2>2 DEF StreamEnds, Types
<1>6. CASE StreamLogsReturns(s)
  BY <1>6 DEF StreamLogsReturns, Types
<1>7. ASSUME NEW p \in Pipe, SendScanned(s, p)
      PROVE  Types'
  <2>1. streams[s] \in Attached /\ streams[s].hold[p] \in LineRec
    BY <1>7, StreamFacts DEF SendScanned, Connected, Held
  <2>2. chan \in Seq(LineRec) /\ Len(chan) \in Nat /\ Len(chan) < Cap
    BY <1>7 DEF Types, SendScanned
  <2>3. chan' \in Seq(LineRec) /\ Len(chan') <= Cap
    BY <1>7, <2>1, <2>2, AppendProperties, CapAssumption DEF SendScanned
  <2>4. [streams[s] EXCEPT !.hold[p] = None] \in Attached
    BY <2>1 DEF Attached, Held
  <2>5. streams' \in [Stream -> {Free} \cup Opening \cup Attached]
    BY <1>7, <2>4 DEF Types, SendScanned
  <2> QED
    BY <1>7, <2>3, <2>5 DEF SendScanned, Types
<1> QED
  BY <1>1, <1>2, <1>3, <1>4, <1>5, <1>6, <1>7 DEF Following

LEMMA TypesRound ==
  ASSUME Types, Reconcile
  PROVE  Types'
<1> USE DEF host, readers, server
<1>1. running \ active \in SUBSET Container /\ NewStreams(running \ active)
  BY DEF Reconcile, Types
<1>2. streams' = [s \in Stream |-> streams'[s]]
  BY <1>1 DEF NewStreams
<1>3. \A s \in Stream : streams'[s] \in {Free} \cup Opening \cup Attached
  <2> TAKE s \in Stream
  <2>1. CASE \E c \in running \ active : streams'[s] = [pc |-> "opening", c |-> c, cancelled |-> FALSE]
    BY <1>1, <2>1 DEF Opening
  <2>2. CASE streams[s] # Free /\ streams'[s] = [streams[s] EXCEPT !.cancelled = TRUE]
    <3>1. streams[s] \in Opening \/ streams[s] \in Attached
      BY <2>2 DEF Types
    <3>2. CASE streams[s] \in Opening
      BY <2>2, <3>2 DEF Opening
    <3>3. CASE streams[s] \in Attached
      BY <2>2, <3>3 DEF Attached
    <3> QED
      BY <3>1, <3>2, <3>3
  <2>3. CASE streams'[s] = streams[s]
    BY <2>3 DEF Types
  <2> QED
    BY <1>1, <2>1, <2>2, <2>3, NewStreamsIs
<1> QED
  BY <1>2, <1>3 DEF Reconcile, Types

LEMMA TypesServer ==
  ASSUME Types, SendLog \/ PostReturns \/ RestartAgent \/ \E l \in requests : Serve(l)
  PROVE  Types'
<1> USE DEF host, readers, docker, server
<1>1. CASE SendLog
  <2>1. chan \in Seq(LineRec) /\ chan # <<>> /\ Len(chan) \in Nat
    BY <1>1 DEF SendLog, Types
  <2>2. Head(chan) \in LineRec /\ chan' \in Seq(LineRec) /\ Len(chan') <= Cap
    BY <1>1, <2>1, HeadTailProperties, CapAssumption DEF SendLog, Types
  <2> QED
    BY <1>1, <2>2 DEF SendLog, Types, Held
<1>2. CASE PostReturns
  BY <1>2 DEF PostReturns, Types, Held
<1>3. CASE RestartAgent
  <2>1. chan' \in Seq(LineRec) /\ Len(chan') <= Cap
    BY <1>3, CapAssumption, EmptySeq DEF RestartAgent
  <2> QED
    BY <1>3, <2>1 DEF RestartAgent, Types, NotOpen, NotHolding, NoStream, Held
<1>4. ASSUME NEW l \in requests, Serve(l)
      PROVE  Types'
  <2>1. l.src \in Src /\ l.n \in 1..MaxLines
    BY ChanFacts
  <2>2. /\ requests' = requests \ {l}
        /\ stored' \in {stored, [stored EXCEPT ![l.src][l.n] = @ + 1]}
        /\ access' \in {access, access \cup {[src |-> l.src, n |-> l.n]}}
        /\ UNCHANGED <<host, readers, docker, chan, posting>>
    BY <1>4 DEF Serve, HandleLogs, RequestLost
  <2>3. stored' \in [Src -> [1..MaxLines -> Nat]]
    <3>1. stored \in [Src -> [1..MaxLines -> Nat]]
      BY DEF Types
    <3>2. [stored[l.src] EXCEPT ![l.n] = @ + 1] \in [1..MaxLines -> Nat]
      <4>1. stored[l.src] \in [1..MaxLines -> Nat] /\ stored[l.src][l.n] + 1 \in Nat
        BY <2>1, <3>1, BoundsAssumption
      <4> QED
        BY <4>1
    <3>3. [stored EXCEPT ![l.src][l.n] = @ + 1] = [stored EXCEPT ![l.src] = [stored[l.src] EXCEPT ![l.n] = @ + 1]]
      BY <2>1, <3>1
    <3> QED
      BY <2>1, <2>2, <3>1, <3>2, <3>3
  <2>4. [src |-> l.src, n |-> l.n] \in Lines
    BY <2>1 DEF Lines, Src
  <2> QED
    BY <2>2, <2>3, <2>4 DEF Types
<1> QED
  BY <1>1, <1>2, <1>3, <1>4
-----------------------------------------------------------------------------
(* The tailers: what has left a tailer was read before what it holds.      *)

LEMMA TailersStep ==
  ASSUME Types, WrittenFirst, Tailers, NEW t \in Targets(config), Tailing(t)
  PROVE  Tailers'
<1> USE DEF host, readers, docker, server
<1>1. UNCHANGED <<config, logs, chan, requests, stored>>
  BY DEF Tailing, TailFile, ReadLine
<1>2. \A x, n : Gone(x, n)' <=> Gone(x, n)
  BY <1>1 DEF Gone, Posted, Queued
<1>3. RealPath[t.path] \in Src /\ Len(logs[RealPath[t.path]]) \in Nat
  BY TailFacts, LogFacts
<1>4. tails[t] \in -1..Len(logs[RealPath[t.path]])
  BY DEF Tailers
<1>5. CASE TailFile(t)
  <2>1. /\ tails[t] = -1 /\ tailHold' = tailHold /\ tailHold[t] = None /\ t.path \in Readable
        /\ tails'[t] = Len(logs[RealPath[t.path]])
        /\ \A u \in Targets(config) : u # t => tails'[u] = tails[u]
    BY <1>5 DEF TailFile, Types, Tailers
  <2>2. \A n \in 1..MaxLines : Gone(RealPath[t.path], n) => n <= Len(logs[RealPath[t.path]])
    BY <1>3 DEF WrittenFirst
  <2> QED
    BY <1>1, <1>2, <1>3, <2>1, <2>2 DEF Tailers
<1>6. CASE ReadLine(t)
  <2>1. /\ tails[t] # -1 /\ tails[t] + 1 <= Len(logs[RealPath[t.path]]) /\ tails[t] + 1 # -1
        /\ tails'[t] = tails[t] + 1 /\ tailHold'[t] = Line(RealPath[t.path], tails[t] + 1, t.type)
        /\ \A u \in Targets(config) : u # t => tails'[u] = tails[u] /\ tailHold'[u] = tailHold[u]
    BY <1>3, <1>4, <1>6 DEF ReadLine, Types
  <2>2. \A n \in 1..MaxLines : Gone(RealPath[t.path], n) => n <= tails[t] + 1 /\ n < tails[t] + 1
    BY <1>3, <1>4, <2>1 DEF Tailers
  <2> QED
    BY <1>1, <1>2, <1>3, <1>4, <2>1, <2>2 DEF Tailers
<1> QED
  BY <1>5, <1>6 DEF Tailing

LEMMA HeldLine ==
  ASSUME Types, WrittenFirst, Tailers, NEW t \in Targets(config), tailHold[t] # None
  PROVE  /\ tailHold[t] \in LineRec /\ tailHold[t].src = RealPath[t.path] /\ tailHold[t].src \in Files
         /\ tailHold[t].n = tails[t] /\ tailHold[t].n \in 1..MaxLines
         /\ Written(tailHold[t]) /\ Recognised(tailHold[t])
         /\ \A n \in 1..MaxLines : Gone(tailHold[t].src, n) => n < tailHold[t].n
         /\ ~Gone(tailHold[t].src, tailHold[t].n)
<1>1. tailHold[t] = Line(RealPath[t.path], tails[t], t.type) /\ tailHold[t] \in LineRec
  BY DEF Tailers, Types, Held
<1>2. tailHold[t].src = RealPath[t.path] /\ tailHold[t].n = tails[t] /\ tailHold[t].service = t.type
  BY <1>1 DEF Line
<1>3. tailHold[t].n \in 1..MaxLines /\ tailHold[t].src \in Files
  BY <1>1, <1>2, TailFacts DEF LineRec
<1>4. Written(tailHold[t])
  BY <1>2, TailFacts, LogFacts DEF Tailers, Written
<1>5. \A n \in 1..MaxLines : Gone(tailHold[t].src, n) => n < tailHold[t].n
  BY <1>2 DEF Tailers
<1>6. ~Gone(tailHold[t].src, tailHold[t].n)
  BY <1>3, <1>5
<1>7. Recognised(tailHold[t])
  <2>1. config \in Config /\ t.path \in Readable
    BY DEF Types, Tailers
  <2> QED
    BY <1>2, <2>1, WebTargets DEF Recognised
<1> QED
  BY <1>1, <1>2, <1>3, <1>4, <1>5, <1>6, <1>7

LEMMA SendTailStep ==
  ASSUME IInv, NEW t \in Targets(config), SendTail(t)
  PROVE  Pipeline' /\ WrittenFirst' /\ FileOrder' /\ Labels' /\ Tailers' /\ OneStream' /\ Behind' /\ Scanners'
<1> USE DEF host, readers, docker, server
<1> DEFINE l == tailHold[t]
<1>1. /\ l # None /\ chan' = Append(chan, l) /\ UNCHANGED <<config, logs, tails, docker, posting, server>>
      /\ tailHold' = [tailHold EXCEPT ![t] = None]
  BY DEF SendTail
<1>2. /\ l \in LineRec /\ l.src = RealPath[t.path] /\ l.src \in Files /\ l.n = tails[t] /\ l.n \in 1..MaxLines
      /\ Written(l) /\ Recognised(l) /\ ~Gone(l.src, l.n)
      /\ \A n \in 1..MaxLines : Gone(l.src, n) => n < l.n
  BY <1>1, HeldLine DEF IInv
<1>0. t.path \in Readable
  BY <1>1 DEF IInv, Tailers
<1>3. tailHold'[t] = None /\ \A u \in Targets(config) : u # t => tailHold'[u] = tailHold[u]
  BY <1>1 DEF IInv, Types
<1> HIDE DEF l
<1>4. /\ Pipeline' /\ WrittenFirst' /\ FileOrder' /\ Labels'
      /\ \A x \in Src : \A n \in 1..MaxLines : Gone(x, n)' => Gone(x, n) \/ (x = l.src /\ n = l.n)
  BY <1>1, <1>2, Put DEF IInv
<1>5. Tailers'
  <2> SUFFICES ASSUME NEW u \in Targets(config)
               PROVE  /\ tails[u] \in -1..Len(logs[RealPath[u.path]])
                      /\ tails[u] = -1 => tailHold'[u] = None
                      /\ tails[u] # -1 => u.path \in Readable
                      /\ tails[u] # -1 => \A n \in 1..MaxLines : Gone(RealPath[u.path], n)' => n <= tails[u]
                      /\ tailHold'[u] # None =>
                            /\ tailHold'[u] = Line(RealPath[u.path], tails[u], u.type)
                            /\ \A n \in 1..MaxLines : Gone(RealPath[u.path], n)' => n < tails[u]
    BY <1>1 DEF Tailers
  <2>1. RealPath[u.path] \in Src
    BY TailFacts DEF IInv
  <2>2. CASE u = t
    BY <1>2, <1>3, <1>4, <2>1, <2>2 DEF IInv, Tailers
  <2>3. CASE u # t
    <3>1. tails[u] # -1 => RealPath[u.path] # l.src
      BY <1>0, <1>2, <2>3, TailFacts DEF IInv, Tailers
    <3>2. tails[u] = -1 => tailHold[u] = None
      BY DEF IInv, Tailers
    <3> QED
      BY <1>3, <1>4, <2>1, <2>3, <3>1, <3>2 DEF IInv, Tailers
  <2> QED
    BY <2>2, <2>3
<1>6. \A x \in Container : \A n \in 1..MaxLines : Gone(x, n)' => Gone(x, n)
  BY <1>2, <1>4, Disjoint
<1>7. LogsGrow
  BY <1>1, LogFacts DEF IInv, LogsGrow
<1>8. OneStream' /\ Behind' /\ Scanners'
  BY <1>1, <1>6, <1>7, StreamsKept DEF IInv
<1> QED
  BY <1>4, <1>5, <1>8

-----------------------------------------------------------------------------
(* The streams.                                                            *)

\* A step that changes nothing of the readers and the logs, and puts nothing
\* into the channel.
LEMMA ReadersKept ==
  ASSUME Types, Tailers, OneStream, Behind, Scanners, UNCHANGED <<config, logs, readers, docker>>, GoneKept
  PROVE  Tailers' /\ OneStream' /\ Behind' /\ Scanners'
<1>1. LogsGrow
  BY LogFacts DEF LogsGrow
<1>2. /\ \A x \in Files : \A n \in 1..MaxLines : Gone(x, n)' => Gone(x, n)
      /\ \A x \in Container : \A n \in 1..MaxLines : Gone(x, n)' => Gone(x, n)
  BY Disjoint DEF GoneKept
<1> QED
  BY <1>1, <1>2, TailersKept, StreamsKept

\* A stream goes on with what it has, ends or is cancelled; it may be freed, and
\* a free slot may be taken.  Nothing is read, and nothing put into the channel.
Loses(s) ==
    \/ streams'[s] = Free
    \/ streams'[s] = streams[s]
    \/ streams'[s] \in Opening
    \/ /\ streams[s] \in Attached /\ streams'[s] \in Attached
       /\ streams'[s].c = streams[s].c /\ streams'[s].pos = streams[s].pos
       /\ streams'[s].hold = streams[s].hold
       /\ streams[s].cancelled => streams'[s].cancelled
       /\ streams'[s].end = streams[s].end \/ (streams[s].end = None /\ streams'[s].end = Len(logs[streams[s].c]))

LEMMA StreamsLose ==
  ASSUME Types, Behind, Scanners, \A s \in Stream : Loses(s),
         UNCHANGED <<logs, chan, requests, stored>>
  PROVE  Behind' /\ Scanners'
<1>1. \A x, n : Gone(x, n)' <=> Gone(x, n)
  BY DEF Gone, Posted, Queued
<1>2. \A s \in Stream : Connected(s)' =>
         /\ Connected(s) /\ streams'[s].c = streams[s].c /\ streams'[s].pos = streams[s].pos
         /\ streams'[s].hold = streams[s].hold
         /\ streams'[s].end = streams[s].end \/ (streams[s].end = None /\ streams'[s].end = Len(logs[streams[s].c]))
         /\ ~streams'[s].cancelled => ~streams[s].cancelled
  <2> TAKE s \in Stream
  <2>1. CASE streams'[s] = Free
    BY <2>1 DEF Connected, Free
  <2>2. CASE streams'[s] = streams[s]
    BY <2>2 DEF Connected
  <2>3. CASE streams'[s] \in Opening
    BY <2>3 DEF Connected, Opening
  <2>4. CASE streams[s] \in Attached /\ streams'[s] \in Attached /\ streams'[s] # streams[s]
    <3>1. Connected(s) /\ streams'[s] # Free /\ streams'[s] \notin Opening
      BY <2>4 DEF Connected, Attached, Free, Opening
    <3> QED
      BY <2>4, <3>1 DEF Loses
  <2> QED
    BY <2>1, <2>2, <2>3, <2>4 DEF Loses
<1>3. \A s \in Stream : Connected(s)' => streams[s].pos <= Limit(s)' /\ Limit(s)' <= Len(logs[streams[s].c])
  <2> SUFFICES ASSUME NEW s \in Stream, Connected(s)'
               PROVE  streams[s].pos <= Limit(s)' /\ Limit(s)' <= Len(logs[streams[s].c])
    OBVIOUS
  <2>1. /\ streams[s] \in Attached /\ streams[s].c \in Src /\ streams'[s].c = streams[s].c
        /\ streams[s].pos <= Limit(s) /\ Limit(s) <= Len(logs[streams[s].c])
        /\ streams'[s].end = streams[s].end \/ (streams[s].end = None /\ streams'[s].end = Len(logs[streams[s].c]))
    BY <1>2, StreamFacts DEF Behind
  <2> QED
    BY <2>1, LogFacts DEF Limit
<1>4. Behind'
  BY <1>1, <1>2, <1>3 DEF Behind
<1>5. Scanners'
  BY <1>1, <1>2 DEF Scanners, Written, Same
<1> QED
  BY <1>4, <1>5

LEMMA OneStreamKept ==
  ASSUME OneStream, UNCHANGED active,
         \A s \in Stream : streams'[s] # Free /\ ~streams'[s].cancelled =>
            streams[s] # Free /\ ~streams[s].cancelled /\ streams'[s].c = streams[s].c
  PROVE  OneStream'
BY DEF OneStream

LEMMA StopStep ==
  ASSUME Types, OneStream, Behind, Scanners, NEW c \in Container, StopContainer(c)
  PROVE  OneStream' /\ Behind' /\ Scanners'
<1> USE DEF readers, server
<1>1. \A s \in Stream :
         \/ streams'[s] = streams[s]
         \/ /\ streams[s].pc = "open" /\ streams[s].end = None /\ streams[s].c = c
            /\ streams'[s] = [streams[s] EXCEPT !.end = Len(logs[c])]
  BY DEF StopContainer
<1>2. \A s \in Stream :
         \/ streams'[s] = streams[s]
         \/ /\ streams[s] \in Attached /\ streams'[s] \in Attached
            /\ streams[s].c = c /\ streams[s].end = None /\ streams'[s].end = Len(logs[c])
            /\ streams'[s].c = streams[s].c /\ streams'[s].pos = streams[s].pos
            /\ streams'[s].hold = streams[s].hold /\ streams'[s].cancelled = streams[s].cancelled
            /\ streams[s] # Free
  <2> TAKE s \in Stream
  <2>1. CASE streams[s].pc = "open"
    <3>1. streams[s] \in Attached /\ streams[s] # Free
      BY <2>1, StreamFacts DEF Connected
    <3>2. Len(logs[c]) \in Nat
      BY LogFacts, Disjoint
    <3>3. CASE streams'[s] = [streams[s] EXCEPT !.end = Len(logs[c])] /\ streams[s].end = None /\ streams[s].c = c
      BY <3>1, <3>2, <3>3 DEF Attached
    <3> QED
      BY <1>1, <3>1, <3>3
  <2>2. CASE streams[s].pc # "open"
    BY <1>1, <2>2
  <2> QED
    BY <2>1, <2>2
<1>3. \A s \in Stream : Loses(s)
  BY <1>2 DEF Loses
<1>4. Behind' /\ Scanners'
  BY <1>3, StreamsLose DEF StopContainer
<1>5. OneStream'
  BY <1>2, OneStreamKept DEF StopContainer
<1> QED
  BY <1>4, <1>5

LEMMA RoundStep ==
  ASSUME Types, OneStream, Behind, Scanners, Reconcile
  PROVE  OneStream' /\ Behind' /\ Scanners'
<1> USE DEF host, readers, server
<1>1. /\ running \ active \in SUBSET Container /\ NewStreams(running \ active)
      /\ active' = running /\ UNCHANGED <<logs, chan, requests, stored>>
  BY DEF Reconcile, Types
<1>2. \A s \in Stream :
         \/ /\ streams[s] = Free /\ streams'[s] \in Opening /\ streams'[s].c \in running \ active
            /\ streams'[s] = [pc |-> "opening", c |-> streams'[s].c, cancelled |-> FALSE]
         \/ /\ streams'[s] # Free /\ streams'[s].cancelled /\ Loses(s)
         \/ /\ streams[s] = Free \/ streams[s].c \notin active \ running
            /\ streams'[s] = streams[s]
  <2> TAKE s \in Stream
  <2>1. CASE streams[s] = Free /\ \E c \in running \ active : streams'[s] = [pc |-> "opening", c |-> c, cancelled |-> FALSE]
    BY <1>1, <2>1 DEF Opening
  <2>2. CASE streams[s] # Free /\ streams'[s] = [streams[s] EXCEPT !.cancelled = TRUE]
    <3>1. streams[s] \in Opening \/ streams[s] \in Attached
      BY <2>2 DEF Types
    <3>2. CASE streams[s] \in Opening
      BY <2>2, <3>2 DEF Opening, Loses, Free
    <3>3. CASE streams[s] \in Attached
      BY <2>2, <3>3 DEF Attached, Loses, Free
    <3> QED
      BY <3>1, <3>2, <3>3
  <2>3. CASE (streams[s] = Free \/ streams[s].c \notin active \ running) /\ streams'[s] = streams[s]
    BY <2>3
  <2> QED
    BY <1>1, <2>1, <2>2, <2>3, NewStreamsIs
<1>3. \A s, r \in Stream : /\ streams[s] = Free /\ streams[r] = Free
                           /\ streams'[s] # Free /\ streams'[s] = streams'[r]
                           => s = r
  BY <1>1, NewStreamsIs
<1>4. \A s \in Stream : Loses(s)
  BY <1>2 DEF Loses
<1>5. Behind' /\ Scanners'
  BY <1>1, <1>4, StreamsLose
<1>6. \A s \in Stream : streams'[s] # Free /\ ~streams'[s].cancelled => streams'[s].c \in running
  <2> SUFFICES ASSUME NEW s \in Stream, streams'[s] # Free, ~streams'[s].cancelled
               PROVE  streams'[s].c \in running
    OBVIOUS
  <2> QED
    BY <1>2 DEF OneStream
<1>7. ASSUME NEW s \in Stream, NEW r \in Stream,
             streams'[s] # Free, ~streams'[s].cancelled, streams'[r] # Free, ~streams'[r].cancelled,
             streams'[s].c = streams'[r].c
      PROVE  s = r
  <2>1. CASE streams[s] = Free /\ streams[r] = Free
    BY <1>2, <1>3, <1>7, <2>1
  <2>2. CASE streams[s] # Free /\ streams[r] # Free
    BY <1>2, <1>7, <2>2 DEF OneStream
  <2>3. CASE streams[s] = Free /\ streams[r] # Free
    <3>1. streams'[s].c \notin active
      BY <1>2, <1>7, <2>3
    <3>2. streams'[r].c \in active
      BY <1>2, <1>7, <2>3 DEF OneStream
    <3> QED
      BY <1>7, <3>1, <3>2
  <2>4. CASE streams[s] # Free /\ streams[r] = Free
    <3>1. streams'[r].c \notin active
      BY <1>2, <1>7, <2>4
    <3>2. streams'[s].c \in active
      BY <1>2, <1>7, <2>4 DEF OneStream
    <3> QED
      BY <1>7, <3>1, <3>2
  <2> QED
    BY <2>1, <2>2, <2>3, <2>4
<1>8. OneStream'
  BY <1>1, <1>6, <1>7 DEF OneStream
<1> QED
  BY <1>5, <1>8

LEMMA LosingStep ==
  ASSUME Types, OneStream, Behind, Scanners, NEW s \in Stream,
         OpenFails(s) \/ Overlong(s) \/ StreamEnds(s) \/ StreamLogsReturns(s)
  PROVE  OneStream' /\ Behind' /\ Scanners'
<1> USE DEF host, readers, server
<1>1. /\ UNCHANGED <<logs, chan, requests, stored, active>>
      /\ \A r \in Stream : r # s => streams'[r] = streams[r]
  BY DEF OpenFails, Overlong, StreamEnds, StreamLogsReturns, Types
<1>2. \/ streams'[s] = Free
      \/ /\ streams[s] \in Attached /\ streams'[s] \in Attached /\ streams[s] # Free
         /\ streams'[s].c = streams[s].c /\ streams'[s].pos = streams[s].pos
         /\ streams'[s].hold = streams[s].hold /\ streams'[s].end = streams[s].end
         /\ streams'[s].cancelled = streams[s].cancelled
  <2>1. CASE OpenFails(s) \/ StreamLogsReturns(s)
    BY <2>1 DEF OpenFails, StreamLogsReturns, Types
  <2>2. CASE Overlong(s) \/ StreamEnds(s)
    <3>1. streams[s] \in Attached /\ streams[s] # Free
      BY <2>2, StreamFacts DEF Overlong, StreamEnds, Connected
    <3>2. \/ streams'[s] = [streams[s] EXCEPT !.pc = "stuck"]
          \/ streams'[s] = [streams[s] EXCEPT !.pc = "ended"]
      BY <2>2 DEF Overlong, StreamEnds, Types
    <3> QED
      BY <3>1, <3>2 DEF Attached
  <2> QED
    BY <2>1, <2>2
<1>3. \A r \in Stream : Loses(r)
  BY <1>1, <1>2 DEF Loses
<1>4. Behind' /\ Scanners'
  BY <1>1, <1>3, StreamsLose
<1>5. OneStream'
  BY <1>1, <1>2, OneStreamKept
<1> QED
  BY <1>4, <1>5
LEMMA OpenStep ==
  ASSUME Types, WrittenFirst, OneStream, Behind, Scanners, NEW s \in Stream, OpenStream(s)
  PROVE  OneStream' /\ Behind' /\ Scanners'
<1> USE DEF host, readers, server
<1> DEFINE c == streams[s].c
           n == Len(logs[c])
<1>1. /\ streams[s] # Free /\ ~streams[s].cancelled /\ c \in Container /\ c \in Src /\ n \in Nat
      /\ streams[s].pc = "opening"
  BY StreamFacts, LogFacts DEF OpenStream
<1>2. /\ UNCHANGED <<logs, chan, requests, stored, active>>
      /\ \A r \in Stream : r # s => streams'[r] = streams[r]
      /\ streams'[s] = [pc |-> "open", c |-> c, cancelled |-> FALSE, pos |-> n,
                        end |-> IF c \in running THEN None ELSE n, hold |-> [p \in Pipe |-> None]]
  BY DEF OpenStream, Types
<1> HIDE DEF n
<1>3. /\ streams'[s].pc = "open" /\ streams'[s].c = c /\ ~streams'[s].cancelled /\ streams'[s].pos = n
      /\ streams'[s].end \in {None, n} /\ \A p \in Pipe : streams'[s].hold[p] = None
  BY <1>2
<1>4. \A x, k : Gone(x, k)' <=> Gone(x, k)
  BY <1>2 DEF Gone, Posted, Queued
<1>5. OneStream'
  BY <1>1, <1>2, <1>3, OneStreamKept
<1>6. \A r \in Stream : r # s => (Connected(r)' <=> Connected(r)) /\ Limit(r)' = Limit(r)
  BY <1>2 DEF Connected, Limit
<1>7. /\ n <= Limit(s)' /\ Limit(s)' <= n
  BY <1>1, <1>2, <1>3 DEF Limit, n
<1>8. \A r \in Stream : \A q \in Pipe :
         Connected(r) /\ streams[r].hold[q] # None /\ streams[r].c = c => streams[r].hold[q].n <= n
  BY DEF Scanners, Written, n
<1>9. \A k \in 1..MaxLines : Gone(c, k) => k <= n
  BY <1>1 DEF WrittenFirst, n
<1>10. ASSUME NEW r \in Stream, Connected(r)'
       PROVE  /\ streams'[r].pos <= Limit(r)' /\ Limit(r)' <= Len(logs[streams'[r].c])
              /\ ~streams'[r].cancelled =>
                   /\ \A k \in 1..MaxLines : Gone(streams'[r].c, k) => k <= streams'[r].pos
                   /\ \A u \in Stream : \A q \in Pipe :
                        /\ Connected(u)' /\ streams'[u].hold[q] # None
                        /\ streams'[u].c = streams'[r].c
                        => streams'[u].hold[q].n <= streams'[r].pos
  <2>1. CASE r = s
    BY <1>2, <1>3, <1>6, <1>7, <1>8, <1>9, <2>1 DEF n
  <2>2. CASE r # s
    <3>1. Connected(r) /\ streams'[r] = streams[r] /\ Limit(r)' = Limit(r)
      BY <1>2, <1>6, <1>10, <2>2
    <3>2. \A u \in Stream : \A q \in Pipe :
             Connected(u)' /\ streams'[u].hold[q] # None => Connected(u) /\ streams'[u] = streams[u]
      BY <1>2, <1>3, <1>6
    <3> QED
      BY <3>1, <3>2 DEF Behind
  <2> QED
    BY <2>1, <2>2
<1>11. Behind'
  BY <1>2, <1>4, <1>10 DEF Behind, Gone, Posted, Queued
<1>12. Scanners'
  BY <1>2, <1>3, <1>4, <1>6 DEF Scanners, Written, Same
<1> QED
  BY <1>5, <1>11, <1>12

LEMMA CopyStep ==
  ASSUME Types, WrittenFirst, OneStream, Behind, Scanners, NEW s \in Stream, Copy(s)
  PROVE  OneStream' /\ Behind' /\ Scanners'
<1> USE DEF host, readers, server
<1> DEFINE c == streams[s].c
           n == streams[s].pos + 1
           kind == logs[c][n]
<1>1. /\ Connected(s) /\ streams[s] # Free /\ ~streams[s].cancelled /\ streams[s] \in Attached
      /\ c \in Container /\ c \in Src /\ streams[s].pos \in Nat /\ streams[s].pos < Limit(s)
  BY StreamFacts DEF Copy, Connected, Limit
<1>2. Limit(s) <= Len(logs[c]) /\ Limit(s) \in Nat /\ Len(logs[c]) \in Nat
  BY <1>1, LogFacts DEF Behind, Limit, Attached
<1>3. n <= Limit(s) /\ n <= Len(logs[c]) /\ n \in Nat /\ streams[s].pos < n
  BY <1>1, <1>2
<1>4. /\ UNCHANGED <<logs, chan, requests, stored, active>>
      /\ \A r \in Stream : r # s => streams'[r] = streams[r]
      /\ kind \in Pipe
      /\ streams'[s] = [streams[s] EXCEPT !.pos = n, !.hold[kind] = Line(c, n, "container")]
  BY DEF Copy, Types
<1> HIDE DEF n, kind
<1>5. /\ streams'[s].pc = streams[s].pc /\ streams'[s].c = c /\ ~streams'[s].cancelled /\ streams'[s].pos = n
      /\ streams'[s].end = streams[s].end /\ streams'[s] # Free
      /\ \A p \in Pipe : p # kind => streams'[s].hold[p] = streams[s].hold[p]
      /\ streams'[s].hold[kind] = Line(c, n, "container")
      /\ streams'[s].cancelled = streams[s].cancelled
  BY <1>1, <1>4 DEF Attached, Free, Connected
<1>6. \A x, k : Gone(x, k)' <=> Gone(x, k)
  BY <1>4 DEF Gone, Posted, Queued
<1>7. OneStream'
  BY <1>1, <1>4, <1>5, OneStreamKept
<1>8. \A r \in Stream : /\ Connected(r)' <=> Connected(r)
                        /\ Limit(r)' = Limit(r)
                        /\ streams'[r].c = streams[r].c /\ streams'[r].cancelled = streams[r].cancelled
  BY <1>1, <1>4, <1>5 DEF Connected, Limit
<1>9. /\ \A k \in 1..MaxLines : Gone(c, k) => k < n
      /\ \A r \in Stream : \A q \in Pipe :
            Connected(r) /\ streams[r].hold[q] # None /\ streams[r].c = c => streams[r].hold[q].n < n
  <2>1. /\ \A k \in 1..MaxLines : Gone(c, k) => k <= streams[s].pos
        /\ \A r \in Stream : \A q \in Pipe :
            Connected(r) /\ streams[r].hold[q] # None /\ streams[r].c = c => streams[r].hold[q].n <= streams[s].pos
    BY <1>1 DEF Behind
  <2>2. \A r \in Stream : \A q \in Pipe : Connected(r) /\ streams[r].hold[q] # None => streams[r].hold[q].n \in 1..MaxLines
    BY StreamFacts DEF Held, LineRec
  <2> QED
    BY <1>1, <1>3, <2>1, <2>2
<1>10. n \in 1..MaxLines
  BY <1>1, <1>3, LogFacts, BoundsAssumption
<1>11. Line(c, n, "container").src = c /\ Line(c, n, "container").n = n
  BY DEF Line
\* Each line held after the step is the new one, or was held before.
<1>12. \A r \in Stream : \A q \in Pipe : Connected(r) =>
          \/ r = s /\ q = kind /\ streams'[r].hold[q].src = c /\ streams'[r].hold[q].n = n
          \/ (r # s \/ q # kind) /\ streams'[r].hold[q] = streams[r].hold[q]
  BY <1>4, <1>5, <1>11
<1>13. ASSUME NEW r \in Stream, Connected(r)
       PROVE  /\ streams'[r].pos <= Limit(r) /\ Limit(r) <= Len(logs[streams[r].c])
              /\ ~streams[r].cancelled =>
                   /\ \A k \in 1..MaxLines : Gone(streams[r].c, k) => k <= streams'[r].pos
                   /\ \A u \in Stream : \A q \in Pipe :
                        /\ Connected(u) /\ streams'[u].hold[q] # None
                        /\ streams[u].c = streams[r].c
                        => streams'[u].hold[q].n <= streams'[r].pos
  <2>1. CASE r = s
    <3>1. \A k \in 1..MaxLines : Gone(c, k) => k <= n
      BY <1>9, <1>10
    <3>2. \A u \in Stream : \A q \in Pipe :
             Connected(u) /\ streams'[u].hold[q] # None /\ streams[u].c = c => streams'[u].hold[q].n <= n
      <4> SUFFICES ASSUME NEW u \in Stream, NEW q \in Pipe, Connected(u), streams'[u].hold[q] # None, streams[u].c = c
                   PROVE  streams'[u].hold[q].n <= n
        OBVIOUS
      <4>1. CASE u = s /\ q = kind
        BY <1>10, <1>12, <4>1
      <4>2. CASE u # s \/ q # kind
        <5>1. streams'[u].hold[q] = streams[u].hold[q] /\ streams[u].hold[q] \in LineRec
          BY <1>12, <4>2, StreamFacts DEF Held
        <5> QED
          BY <1>9, <1>10, <5>1 DEF LineRec
      <4> QED
        BY <4>1, <4>2
    <3> QED
      BY <1>2, <1>3, <1>5, <2>1, <3>1, <3>2
  <2>2. CASE r # s
    <3>1. streams'[r] = streams[r]
      BY <1>4, <2>2
    <3>2. ~streams[r].cancelled => streams[r].c # c
      BY <1>1, <1>13, <2>2, StreamFacts DEF OneStream
    <3>3. \A u \in Stream : \A q \in Pipe :
             Connected(u) /\ streams'[u].hold[q] # None /\ streams[u].c # c => streams'[u].hold[q] = streams[u].hold[q]
      BY <1>12
    <3> QED
      BY <1>13, <3>1, <3>2, <3>3 DEF Behind
  <2> QED
    BY <2>1, <2>2
<1>14. Behind'
  BY <1>4, <1>6, <1>8, <1>13 DEF Behind, Gone, Posted, Queued
<1>15. ASSUME NEW r \in Stream, NEW p \in Pipe, Connected(r), streams'[r].hold[p] # None
       PROVE  /\ streams'[r].hold[p].src = streams[r].c
              /\ Written(streams[r].hold[p]) \/ (r = s /\ p = kind)
              /\ streams'[r].hold[p].n <= Len(logs[streams'[r].hold[p].src])
              /\ ~Gone(streams[r].c, streams'[r].hold[p].n)
              /\ \A u \in Stream : \A q \in Pipe :
                    /\ Connected(u) /\ streams'[u].hold[q] # None
                    /\ streams'[u].hold[q].src = streams'[r].hold[p].src
                    /\ streams'[u].hold[q].n = streams'[r].hold[p].n
                    => u = r /\ q = p
  <2>1. CASE r = s /\ p = kind
    <3>1. ~Gone(c, n)
      BY <1>9, <1>10
    <3>2. \A u \in Stream : \A q \in Pipe :
             /\ Connected(u) /\ streams'[u].hold[q] # None
             /\ streams'[u].hold[q].src = c /\ streams'[u].hold[q].n = n
             => u = r /\ q = p
      <4> SUFFICES ASSUME NEW u \in Stream, NEW q \in Pipe, Connected(u), streams'[u].hold[q] # None,
                          streams'[u].hold[q].src = c, streams'[u].hold[q].n = n, u # s \/ q # kind
                   PROVE  FALSE
        BY <2>1
      <4>1. streams'[u].hold[q] = streams[u].hold[q]
        BY <1>12
      <4>2. streams[u].c = c
        BY <4>1 DEF Scanners
      <4> QED
        BY <1>9, <1>10, <4>1, <4>2
    <3> QED
      BY <1>3, <1>12, <1>15, <2>1, <3>1, <3>2
  <2>2. CASE r # s \/ p # kind
    <3>1. streams'[r].hold[p] = streams[r].hold[p] /\ streams[r].hold[p] # None
      BY <1>12, <1>15, <2>2
    <3>2. /\ streams[r].hold[p].src = streams[r].c /\ Written(streams[r].hold[p])
          /\ ~Gone(streams[r].c, streams[r].hold[p].n)
      BY <1>15, <3>1 DEF Scanners
    <3>3. ASSUME NEW u \in Stream, NEW q \in Pipe, Connected(u), streams'[u].hold[q] # None,
                 streams'[u].hold[q].src = streams'[r].hold[p].src, streams'[u].hold[q].n = streams'[r].hold[p].n
          PROVE  u = r /\ q = p
      <4>1. CASE u = s /\ q = kind
        <5>1. streams[r].c = c /\ streams[r].hold[p].n = n
          BY <1>12, <3>1, <3>2, <3>3, <4>1
        <5> QED
          BY <1>9, <1>10, <1>15, <3>1, <5>1
      <4>2. CASE u # s \/ q # kind
        <5>1. streams'[u].hold[q] = streams[u].hold[q]
          BY <1>12, <3>3, <4>2
        <5> QED
          BY <1>15, <3>1, <3>3, <5>1 DEF Scanners, Same
      <4> QED
        BY <4>1, <4>2
    <3> QED
      BY <3>1, <3>2, <3>3 DEF Written
  <2> QED
    BY <2>1, <2>2
<1>16. Scanners'
  BY <1>4, <1>6, <1>8, <1>15 DEF Scanners, Written, Same, Gone, Posted, Queued
<1> QED
  BY <1>7, <1>14, <1>16

LEMMA ScannedStep ==
  ASSUME IInv, NEW s \in Stream, NEW p \in Pipe, SendScanned(s, p)
  PROVE  Pipeline' /\ WrittenFirst' /\ FileOrder' /\ Labels' /\ Tailers' /\ OneStream' /\ Behind' /\ Scanners'
<1> USE DEF host, readers, server
<1> DEFINE l == streams[s].hold[p]
<1>0. Types /\ Pipeline /\ WrittenFirst /\ FileOrder /\ Tailers /\ OneStream /\ Behind /\ Scanners /\ Labels
  BY DEF IInv
<1>1. Connected(s) /\ l # None /\ streams[s] \in Attached /\ streams[s] # Free /\ streams[s].c \in Container
  BY <1>0, StreamFacts DEF SendScanned, Connected
<1>2. /\ l \in LineRec /\ l.src = streams[s].c /\ l.src \in Container /\ l.src \notin Files /\ l.n \in 1..MaxLines
      /\ Written(l) /\ ~Gone(l.src, l.n)
  BY <1>0, <1>1, StreamFacts, Disjoint DEF Scanners, Held, LineRec
<1>3. Recognised(l)
  BY <1>2, CanonicalIs DEF Recognised, Files
<1>4. /\ chan' = Append(chan, l) /\ UNCHANGED <<config, logs, tails, tailHold, active, posting, server>>
      /\ \A r \in Stream : r # s => streams'[r] = streams[r]
      /\ streams'[s] = [streams[s] EXCEPT !.hold[p] = None]
  BY <1>0 DEF SendScanned, Types
<1> HIDE DEF l
<1>5. /\ streams'[s].pc = streams[s].pc /\ streams'[s].c = streams[s].c /\ streams'[s].pos = streams[s].pos
      /\ streams'[s].end = streams[s].end /\ streams'[s].cancelled = streams[s].cancelled /\ streams'[s] # Free
      /\ streams'[s].hold[p] = None
      /\ \A q \in Pipe : q # p => streams'[s].hold[q] = streams[s].hold[q]
  BY <1>1, <1>4 DEF Attached, Free
<1>6. /\ Pipeline' /\ WrittenFirst' /\ FileOrder' /\ Labels'
      /\ \A x \in Src : \A n \in 1..MaxLines : Gone(x, n)' => Gone(x, n) \/ (x = l.src /\ n = l.n)
  BY <1>0, <1>2, <1>3, <1>4, Put
<1>7. \A x \in Files : \A n \in 1..MaxLines : Gone(x, n)' => Gone(x, n)
  BY <1>2, <1>6, Disjoint
<1>8. Tailers'
  <2>1. LogsGrow
    BY <1>0, <1>4, LogFacts DEF LogsGrow
  <2> QED
    BY <1>0, <1>4, <1>7, <2>1, TailersKept
<1>9. OneStream'
  BY <1>0, <1>1, <1>4, <1>5, OneStreamKept
<1>10. \A r \in Stream : /\ Connected(r)' <=> Connected(r)
                         /\ Limit(r)' = Limit(r)
                         /\ streams'[r].c = streams[r].c /\ streams'[r].cancelled = streams[r].cancelled
                         /\ streams'[r].pos = streams[r].pos
                         /\ \A q \in Pipe : streams'[r].hold[q] # None =>
                               streams'[r].hold[q] = streams[r].hold[q] /\ ~(r = s /\ q = p)
  BY <1>4, <1>5 DEF Connected, Limit
<1>11. Behind'
  <2>1. ASSUME NEW r \in Stream, Connected(r)
        PROVE  /\ streams[r].pos <= Limit(r) /\ Limit(r) <= Len(logs[streams[r].c])
               /\ ~streams[r].cancelled =>
                    /\ \A k \in 1..MaxLines : Gone(streams[r].c, k)
                                              \/ (streams[r].c = l.src /\ k = l.n) => k <= streams[r].pos
                    /\ \A u \in Stream : \A q \in Pipe :
                         /\ Connected(u) /\ streams'[u].hold[q] # None
                         /\ streams[u].c = streams[r].c
                         => streams'[u].hold[q].n <= streams[r].pos
    <3>1. ~streams[r].cancelled /\ streams[r].c = l.src => l.n <= streams[r].pos
      BY <1>0, <1>1, <1>2, <2>1 DEF Behind, l
    <3> QED
      BY <1>0, <1>10, <2>1, <3>1 DEF Behind
  <2>2. \A r \in Stream : Connected(r) => streams[r].c \in Src
    BY <1>0, StreamFacts
  <2>3. ASSUME NEW r \in Stream, NEW x, x = streams[r].c, NEW k \in 1..MaxLines, Connected(r), ~streams[r].cancelled, Gone(x, k)'
        PROVE  k <= streams[r].pos
    BY <1>6, <2>1, <2>2, <2>3
  <2>4. \A r \in Stream : Connected(r)' /\ ~streams'[r].cancelled =>
           \A x : x = streams'[r].c => \A k \in 1..MaxLines : Gone(x, k)' => k <= streams'[r].pos
    BY <1>10, <2>3
  <2>5. (\A r \in Stream : Connected(r) /\ ~streams[r].cancelled =>
           \A k \in 1..MaxLines : Gone(streams[r].c, k) => k <= streams[r].pos)'
    BY <2>4 DEF Gone, Posted, Queued
  <2> QED
    BY <1>4, <1>10, <2>1, <2>5 DEF Behind
<1>12. Scanners'
  <2>1. ASSUME NEW r \in Stream, NEW q \in Pipe, Connected(r), streams'[r].hold[q] # None
        PROVE  /\ streams'[r].hold[q].src = streams[r].c
               /\ streams'[r].hold[q].n <= Len(logs[streams'[r].hold[q].src])
               /\ \A x, k : x = streams[r].c /\ k = streams'[r].hold[q].n => ~Gone(x, k)'
               /\ \A u \in Stream : \A o \in Pipe :
                     /\ Connected(u) /\ streams'[u].hold[o] # None
                     /\ streams'[u].hold[o].src = streams'[r].hold[q].src
                     /\ streams'[u].hold[o].n = streams'[r].hold[q].n
                     => u = r /\ o = q
    <3> DEFINE h == streams[r].hold[q]
    <3>1. streams'[r].hold[q] = h /\ h # None /\ ~(r = s /\ q = p)
      BY <1>10, <2>1
    <3>2. h.src = streams[r].c /\ h.n <= Len(logs[h.src]) /\ ~Gone(streams[r].c, h.n)
      BY <1>0, <2>1, <3>1 DEF Scanners, Written
    <3>3. ~(h.src = l.src /\ h.n = l.n)
      BY <1>0, <1>1, <2>1, <3>1 DEF Scanners, Same, l
    <3>4. h.src \in Src /\ h.n \in 1..MaxLines
      BY <1>0, <2>1, <3>1, StreamFacts DEF Held, LineRec
    <3>5. \A x, k : x = h.src /\ k = h.n => ~Gone(x, k)'
      BY <1>6, <3>2, <3>3, <3>4
    <3>6. \A u \in Stream : \A o \in Pipe :
             /\ Connected(u) /\ streams'[u].hold[o] # None
             /\ streams'[u].hold[o].src = h.src /\ streams'[u].hold[o].n = h.n
             => u = r /\ o = q
      BY <1>0, <1>10, <2>1, <3>1 DEF Scanners, Same
    <3> QED
      BY <3>1, <3>2, <3>5, <3>6
  <2>2. (\A r \in Stream : \A q \in Pipe : Connected(r) /\ streams[r].hold[q] # None =>
           ~Gone(streams[r].c, streams[r].hold[q].n))'
    BY <1>10, <2>1 DEF Gone, Posted, Queued
  <2> QED
    BY <1>4, <1>10, <2>1, <2>2 DEF Scanners, Written, Same
<1> QED
  BY <1>6, <1>8, <1>9, <1>11, <1>12

-----------------------------------------------------------------------------
(* The invariant.                                                          *)

LEMMA InitInv == Init => IInv
<1> SUFFICES ASSUME Init PROVE IInv
  OBVIOUS
<1> USE DEF Init
<1>1. \A x, n : x \in Src /\ n \in 1..MaxLines => ~Gone(x, n)
  BY DEF Gone, Posted, Queued, Src
<1>2. Types
  <2>1. chan \in Seq(LineRec) /\ Len(chan) <= Cap
    BY CapAssumption, EmptySeq
  <2>2. logs \in [Src -> Seq({"line"} \cup Kinds)] /\ \A x \in Src : Len(logs[x]) <= MaxLines
    BY BoundsAssumption, EmptySeq DEF Src
  <2>3. running \subseteq Container
    BY DEF Watched
  <2> QED
    BY <2>1, <2>2, <2>3 DEF Types, NotOpen, NotHolding, NoStream, Held, Src
<1>3. Pipeline /\ FileOrder /\ Labels
  BY DEF Pipeline, FileOrder, Labels, AtMostOnce
<1>4. WrittenFirst
  BY <1>1 DEF WrittenFirst
<1>5. Tailers
  <2>1. \A t \in Targets(config) : Len(logs[RealPath[t.path]]) \in Nat
    BY <1>2, TailFacts, LogFacts
  <2> QED
    BY <2>1 DEF Tailers, NotOpen, NotHolding
<1>6. OneStream /\ Behind /\ Scanners
  BY DEF OneStream, Behind, Scanners, Connected, NoStream, Free
<1> QED
  BY <1>2, <1>3, <1>4, <1>5, <1>6 DEF IInv

LEMMA RestartStep ==
  ASSUME IInv, RestartAgent
  PROVE  Pipeline' /\ WrittenFirst' /\ FileOrder' /\ Labels' /\ Tailers' /\ OneStream' /\ Behind' /\ Scanners'
<1> USE DEF host, server
<1>0. Types /\ Pipeline /\ WrittenFirst /\ FileOrder /\ Labels
  BY DEF IInv
<1>1. /\ chan' = <<>> /\ posting' = None /\ UNCHANGED <<config, logs, requests, stored>>
      /\ tails' = NotOpen(config) /\ tailHold' = NotHolding(config) /\ streams' = NoStream
  BY DEF RestartAgent
<1>2. GoneKept
  BY <1>1 DEF GoneKept, Gone, Posted, Queued
<1>3. Pipeline' /\ FileOrder' /\ Labels'
  BY <1>0, <1>1 DEF Pipeline, FileOrder, Labels, Recognised, AtMostOnce, Same
<1>4. WrittenFirst'
  BY <1>0, <1>1, <1>2 DEF WrittenFirst, Written, GoneKept
<1>5. Tailers'
  <2>1. \A t \in Targets(config) : Len(logs[RealPath[t.path]]) \in Nat
    BY <1>0, TailFacts, LogFacts
  <2> QED
    BY <1>1, <2>1 DEF Tailers, NotOpen, NotHolding
<1>6. OneStream' /\ Behind' /\ Scanners'
  BY <1>1 DEF OneStream, Behind, Scanners, Connected, NoStream, Free
<1> QED
  BY <1>3, <1>4, <1>5, <1>6

\* Steps that leave the channel, the requests and the table alone.
Outside == UNCHANGED <<config, chan, requests, stored>> /\ posting' \in {posting, None}

LEMMA OutsideStep ==
  ASSUME IInv, Outside, LogsGrow
  PROVE  Pipeline' /\ WrittenFirst' /\ FileOrder' /\ Labels' /\ GoneKept
BY PipeKept, WrittenKept DEF IInv, Outside

LEMMA StepInv == IInv /\ [Next]_vars => IInv'
<1> SUFFICES ASSUME IInv, [Next]_vars PROVE IInv'
  OBVIOUS
<1>0. Types /\ Pipeline /\ WrittenFirst /\ FileOrder /\ Tailers /\ OneStream /\ Behind /\ Scanners /\ Labels
  BY DEF IInv
<1>1. logs' = logs => LogsGrow
  BY <1>0, LogFacts DEF LogsGrow
<1>2. \A x \in Files \cup Container : x \in Src
  BY DEF Src
<1>3. GoneKept => /\ \A x \in Files : \A n \in 1..MaxLines : Gone(x, n)' => Gone(x, n)
                  /\ \A x \in Container : \A n \in 1..MaxLines : Gone(x, n)' => Gone(x, n)
  BY Disjoint DEF GoneKept
<1>4. CASE Host
  <2>1. Types'
    BY <1>0, <1>4, TypesHost
  <2>2. ASSUME NEW x \in Src, NEW kind, Write(x, kind)
        PROVE  IInv'
    <3>1. LogsGrow
      BY <1>0, <2>2, LogFacts DEF LogsGrow, Write, Types
    <3>2. Outside /\ UNCHANGED <<config, readers, docker>>
      BY <2>2 DEF Write, Outside, server
    <3>3. Tailers' /\ OneStream' /\ Behind' /\ Scanners'
      BY <1>0, <1>3, <3>1, <3>2, OutsideStep, TailersKept, StreamsKept
    <3> QED
      BY <2>1, <3>1, <3>2, <3>3, OutsideStep DEF IInv
  <2>3. ASSUME NEW c \in Container, StartContainer(c)
        PROVE  IInv'
    <3>1. Outside /\ UNCHANGED <<config, logs, readers, docker>>
      BY <2>3 DEF StartContainer, Outside, server
    <3>2. Tailers' /\ OneStream' /\ Behind' /\ Scanners'
      BY <1>0, <1>1, <3>1, OutsideStep, ReadersKept
    <3> QED
      BY <1>1, <2>1, <3>1, <3>2, OutsideStep DEF IInv
  <2>4. ASSUME NEW c \in Container, StopContainer(c)
        PROVE  IInv'
    <3>1. Outside /\ UNCHANGED <<config, logs, readers>>
      BY <2>4 DEF StopContainer, Outside, server
    <3>2. Tailers'
      BY <1>0, <1>1, <1>3, <3>1, OutsideStep, TailersKept
    <3>3. OneStream' /\ Behind' /\ Scanners'
      BY <1>0, <2>4, StopStep
    <3> QED
      BY <1>1, <2>1, <3>1, <3>2, <3>3, OutsideStep DEF IInv
  <2> QED
    BY <1>2, <1>4, <2>2, <2>3, <2>4 DEF Host
<1>5. CASE RestartAgent
  BY <1>0, <1>5, RestartStep, TypesServer DEF IInv
<1>6. ASSUME NEW t \in DOMAIN tails, Tailing(t) \/ SendTail(t)
      PROVE  IInv'
  <2>1. t \in Targets(config)
    BY <1>0 DEF Types
  <2>2. Types'
    BY <1>0, <1>6, <2>1, TypesTail
  <2>3. CASE Tailing(t)
    <3>1. Outside /\ UNCHANGED <<config, logs, docker>>
      BY <2>3 DEF Tailing, TailFile, ReadLine, Outside, host, server
    <3>2. Tailers'
      BY <1>0, <2>1, <2>3, TailersStep
    <3>3. OneStream' /\ Behind' /\ Scanners'
      BY <1>0, <1>1, <1>3, <3>1, OutsideStep, StreamsKept
    <3> QED
      BY <1>1, <2>2, <3>1, <3>2, <3>3, OutsideStep DEF IInv
  <2>4. CASE SendTail(t)
    BY <2>1, <2>2, <2>4, SendTailStep DEF IInv
  <2> QED
    BY <1>6, <2>3, <2>4
<1>7. CASE Reconcile
  <2>1. Outside /\ UNCHANGED <<config, logs, readers>>
    BY <1>7 DEF Reconcile, Outside, host, server
  <2>2. Types' /\ OneStream' /\ Behind' /\ Scanners'
    BY <1>0, <1>7, TypesRound, RoundStep
  <2>3. Tailers'
    BY <1>0, <1>1, <1>3, <2>1, OutsideStep, TailersKept
  <2> QED
    BY <1>1, <2>1, <2>2, <2>3, OutsideStep DEF IInv
<1>8. ASSUME NEW s \in Stream, Following(s)
      PROVE  IInv'
  <2>1. Outside /\ UNCHANGED <<config, logs, readers>>
    BY <1>8 DEF Following, OpenStream, OpenFails, Copy, Overlong, StreamEnds, StreamLogsReturns, Outside, host, server
  <2>2. Types'
    BY <1>0, <1>8, TypesStreams
  <2>3. OneStream' /\ Behind' /\ Scanners'
    BY <1>0, <1>8, OpenStep, CopyStep, LosingStep DEF Following
  <2>4. Tailers'
    BY <1>0, <1>1, <1>3, <2>1, OutsideStep, TailersKept
  <2> QED
    BY <1>1, <2>1, <2>2, <2>3, <2>4, OutsideStep DEF IInv
<1>9. ASSUME NEW s \in Stream, NEW p \in Pipe, SendScanned(s, p)
      PROVE  IInv'
  <2>1. Types'
    BY <1>0, <1>9, TypesStreams
  <2> QED
    BY <1>9, <2>1, ScannedStep DEF IInv
<1>10. CASE SendLog
  <2>1. Types' /\ Pipeline' /\ WrittenFirst' /\ FileOrder' /\ Labels' /\ GoneKept
    BY <1>0, <1>10, TypesServer, Take
  <2>2. UNCHANGED <<config, logs, readers, docker>>
    BY <1>10 DEF SendLog, host
  <2> QED
    BY <1>0, <2>1, <2>2, ReadersKept DEF IInv
<1>11. CASE PostReturns
  <2>1. Outside /\ UNCHANGED <<config, logs, readers, docker>>
    BY <1>11 DEF PostReturns, Outside, host, server
  <2>2. Types'
    BY <1>0, <1>11, TypesServer
  <2>3. Tailers' /\ OneStream' /\ Behind' /\ Scanners'
    BY <1>0, <1>1, <2>1, OutsideStep, ReadersKept
  <2> QED
    BY <1>1, <2>1, <2>2, <2>3, OutsideStep DEF IInv
<1>12. ASSUME NEW l \in requests, Serve(l)
       PROVE  IInv'
  <2>1. Types' /\ Pipeline' /\ WrittenFirst' /\ FileOrder' /\ Labels' /\ GoneKept
    BY <1>0, <1>12, TypesServer, Answer
  <2>2. UNCHANGED <<config, logs, readers, docker>>
    BY <1>12 DEF Serve, HandleLogs, RequestLost, host
  <2> QED
    BY <1>0, <2>1, <2>2, ReadersKept DEF IInv
<1>13. CASE UNCHANGED vars
  <2>1. Outside /\ UNCHANGED <<config, logs, readers, docker>>
    BY <1>13 DEF vars, host, server, Outside
  <2>2. Types'
    BY <1>0, <1>13 DEF vars, host, server, readers, docker, Types
  <2>3. Tailers' /\ OneStream' /\ Behind' /\ Scanners'
    BY <1>0, <1>1, <2>1, OutsideStep, ReadersKept
  <2> QED
    BY <1>1, <2>1, <2>2, <2>3, OutsideStep DEF IInv
<1> QED
  BY <1>4, <1>5, <1>6, <1>7, <1>8, <1>9, <1>10, <1>11, <1>12, <1>13 DEF Next

LEMMA Invariance == Spec => []IInv
BY InitInv, StepInv, PTL DEF Spec

-----------------------------------------------------------------------------
(* The theorems.                                                           *)

\* The state has its types: what a tailer has read, what is in the channel and
\* what is posted are lines that were written, and no stream is past the end of
\* its container's log.
THEOREM TypesHold == Spec => []TypeOK
<1>1. IInv => TypeOK
  <2> SUFFICES ASSUME IInv PROVE TypeOK
    OBVIOUS
  <2>1. Types /\ WrittenFirst /\ Tailers /\ Behind
    BY DEF IInv
  <2>2. \A l \in LineRec : Written(l) => IsLine(l)
    BY DEF LineRec, Written, IsLine, Lines, Src
  <2>3. \A i \in DOMAIN chan : IsLine(chan[i])
    BY <2>1, <2>2, ChanFacts DEF WrittenFirst
  <2>4. (posting # None => IsLine(posting)) /\ \A l \in requests : IsLine(l)
    BY <2>1, <2>2 DEF WrittenFirst, Types, Held
  <2>5. \A t \in Targets(config) : tailHold[t] # None => IsLine(tailHold[t])
    BY <2>1, <2>2, HeldLine
  <2>6. \A s \in Stream : Connected(s) => (streams[s].end # None => streams[s].pos <= streams[s].end)
    BY <2>1 DEF Behind, Limit
  <2> QED
    BY <2>1, <2>3, <2>4, <2>5, <2>6 DEF TypeOK, Types, Tailers, Connected
<1> QED
  BY <1>1, Invariance, PTL

\* No line is stored twice, whatever names a file has, however often containers
\* stop and start, posts time out and the agent restarts.
THEOREM StoredAtMostOnce == Spec => []AtMostOnce
<1>1. IInv => AtMostOnce
  BY DEF IInv, Pipeline
<1> QED
  BY <1>1, Invariance, PTL

\* What belongs to an enabled web server is posted under a name that HandleLogs
\* parses as a web server's.
THEOREM WebLinesAreRecognised == Spec => []WebLinesRecognised
<1>1. IInv => WebLinesRecognised
  BY DEF IInv, Labels, Recognised, WebLinesRecognised
<1> QED
  BY <1>1, Invariance, PTL

\* The lines of a file are posted in the order in which they were written, and
\* none is posted again after a restart.
THEOREM FilesPostedInOrder == Spec => PostedInOrder
<1> DEFINE InOrder == posting' \notin {None, posting} /\ posting'.src \in Files =>
              \A n \in DOMAIN logs[posting'.src] :
                  (\/ stored[posting'.src][n] > 0
                   \/ \E r \in requests : r.src = posting'.src /\ r.n = n)
                  => n < posting'.n
<1>1. IInv /\ [Next]_vars => [InOrder]_vars
  <2> SUFFICES ASSUME IInv, Next, posting' \notin {None, posting}, posting'.src \in Files,
                      NEW n \in DOMAIN logs[posting'.src],
                      \/ stored[posting'.src][n] > 0
                      \/ \E r \in requests : r.src = posting'.src /\ r.n = n
               PROVE  n < posting'.n
    OBVIOUS
  <2>1. SendLog
    BY DEF Next, Host, Write, StartContainer, StopContainer, RestartAgent, Tailing, TailFile, ReadLine, SendTail,
           Reconcile, Following, OpenStream, OpenFails, Copy, Overlong, StreamEnds, StreamLogsReturns, SendScanned,
           PostReturns, Serve, HandleLogs, RequestLost
  <2>2. Types /\ FileOrder
    BY DEF IInv
  <2>3. 1 \in DOMAIN chan /\ posting' = chan[1]
    BY <2>1, <2>2 DEF SendLog, Types
  <2>4. n \in 1..MaxLines
    <3>1. posting'.src \in Src
      BY <2>2, <2>3, ChanFacts
    <3> QED
      BY <2>2, <3>1, LogFacts, BoundsAssumption
  <2>5. Posted(chan[1].src, n)
    BY <2>3 DEF Posted
  <2> QED
    BY <2>2, <2>3, <2>4, <2>5 DEF FileOrder
<1> QED
  BY <1>1, Invariance, PTL DEF Spec, PostedInOrder
=============================================================================
