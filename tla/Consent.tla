------------------------------- MODULE Consent -------------------------------
(***************************************************************************)
(* Consent for cross-node calls (core/consent, api/consent.ts) and the     *)
(* trust list of the scopes (lib/trust-store.ts, plugin trust), which keep *)
(* what they know in the same trust.json: the one as an object keyed by    *)
(* from, to and action, the other as an array of pairs.  Either reads the  *)
(* other's shape as empty.  Every command is a process that loads the      *)
(* file, writes trust.json.tmp and renames it, with no lock.  A process    *)
(* runs one command, and may die anywhere in it.                           *)
(*                                                                         *)
(* A request lives on the disks of both nodes: a mirror where it was made, *)
(* the one to be approved where it was posted.  Left out: the action,      *)
(* which is a further component of every key, and wrong PINs, which change *)
(* nothing (a PIN is known to the humans once the initiator has printed    *)
(* it), and the tmp file of a request, which two verdicts at once share.   *)
(***************************************************************************)
EXTENDS Naturals

CONSTANTS Node, Request, Proc, None

Key == Node \X Node  \* from, to

ASSUME ConsentConstants == None \notin Key

Content == [shape : {"none", "object", "array"}, of : SUBSET Key]
Absent == [shape |-> "none", of |-> {}]

VARIABLES file, tmp,    \* per node, trust.json and trust.json.tmp
          ask,          \* who asks whom in a request
          status,       \* per node and request, what its pending file says
          post,         \* the request's POST: none, sent, stored, answered or failed
          late,         \* requests past their expiry
          task, pc, copy, \* a process: what it does, where it is, what it will write
          granted,      \* history: what each node was told to trust, by store
          clash,        \* history: nodes where writers overlapped or the stores met
          contested     \* history: <<node, request>> with two verdicts under way

requestVars == <<ask, post, late>>
fileVars == <<file, tmp, granted, clash>>
verdictVars == <<status, contested>>
consentVars == <<file, tmp, ask, status, post, late, task, pc, copy, granted, clash, contested>>

NoTask == [kind |-> "none", node |-> None, key |-> None, req |-> None]

ConsentInit ==
    /\ file = [n \in Node |-> Absent]
    /\ tmp = [n \in Node |-> Absent]
    /\ ask = [r \in Request |-> None]
    /\ status = [n \in Node |-> [r \in Request |-> "none"]]
    /\ post = [r \in Request |-> "none"]
    /\ late = {}
    /\ task = [p \in Proc |-> NoTask]
    /\ pc = [p \in Proc |-> "idle"]
    /\ copy = [p \in Proc |-> Absent]
    /\ granted = [n \in Node |-> {}]
    /\ clash = {}
    /\ contested = {}

-----------------------------------------------------------------------------
\* The two loadTrust: a shape that is not one's own is an empty store.
As(shape, c) == IF c.shape = shape THEN c.of ELSE {}

Shape(kind) == IF kind \in {"approve", "trust", "untrust"} THEN "object" ELSE "array"

\* samePair: the pairs of the list have no direction.
Same(k) == {k, <<k[2], k[1]>>}

IsTrusted(n, k) == k \in As("object", file[n])

Begin(p, kind, n, k, r, next) ==
    /\ pc[p] = "idle"
    /\ task' = [task EXCEPT ![p] = [kind |-> kind, node |-> n, key |-> k, req |-> r]]
    /\ pc' = [pc EXCEPT ![p] = next]

\* What a command makes of what it loaded: recordTrust, removeTrust, cmdAdd, cmdRemove.
After(kind, k, of) ==
    CASE kind \in {"approve", "trust"} -> of \cup {k}
      [] kind = "untrust"              -> of \ {k}
      [] kind = "add"                  -> of \cup {k}
      [] kind = "remove"               -> of \ Same(k)

\* untrust and remove of what is not there, and add of what is, end without a write.
Idle(kind, k, of) ==
    \/ kind = "untrust" /\ k \notin of
    \/ kind = "remove" /\ Same(k) \cap of = {}
    \/ kind = "add" /\ Same(k) \cap of # {}

Writing(q, n) == task[q].node = n /\ pc[q] \in {"write", "rename"}

-----------------------------------------------------------------------------
\* The consent gate: not trusted by n itself, so the request is written on n and posted.
Asks(n, m, r) ==
    /\ n # m /\ ask[r] = None /\ ~IsTrusted(n, <<n, m>>)
    /\ ask' = [ask EXCEPT ![r] = <<n, m>>]
    /\ status' = [status EXCEPT ![n][r] = "pending"]
    /\ post' = [post EXCEPT ![r] = "sent"]
    /\ UNCHANGED <<fileVars, late, task, pc, copy, contested>>

\* POST /api/consent/request at the other node; an id that is known is refused.
Stored(r) ==
    /\ post[r] = "sent"
    /\ LET m == ask[r][2] IN
         IF status[m][r] = "none"
           THEN /\ status' = [status EXCEPT ![m][r] = "pending"]
                /\ post' = [post EXCEPT ![r] = "stored"]
           ELSE post' = [post EXCEPT ![r] = "failed"] /\ UNCHANGED status
    /\ UNCHANGED <<fileVars, ask, late, task, pc, copy, contested>>

\* The answer comes back, and the PIN is printed; or the connection fails.
Answered(r) ==
    /\ \/ post[r] = "stored" /\ post' = [post EXCEPT ![r] = "answered"]
       \/ post[r] \in {"sent", "stored"} /\ post' = [post EXCEPT ![r] = "failed"]
    /\ UNCHANGED <<fileVars, verdictVars, ask, late, task, pc, copy>>

Expires(r) ==
    /\ ask[r] # None /\ late' = late \cup {r}
    /\ UNCHANGED <<fileVars, verdictVars, ask, post, task, pc, copy>>

-----------------------------------------------------------------------------
\* `maw consent approve` and `reject` read the request: pending, and not expired.
ReadRequest(p, n, r, kind) ==
    /\ status[n][r] = "pending" /\ r \notin late
    /\ kind = "approve" => post[r] = "answered"
    /\ Begin(p, kind, n, ask[r], r, "mark")
    /\ contested' =
         IF \E q \in Proc : task[q].node = n /\ task[q].req = r /\ pc[q] = "mark"
         THEN contested \cup {<<n, r>>} ELSE contested
    /\ UNCHANGED <<fileVars, requestVars, status, copy>>

\* Mutant: a verdict is recorded on the request, and the trust never.
MarkOnly(p) ==
    /\ pc[p] = "mark"
    /\ status' = [status EXCEPT ![task[p].node][task[p].req] =
                    IF task[p].kind = "approve" THEN "approved" ELSE "rejected"]
    /\ pc' = [pc EXCEPT ![p] = "done"]
    /\ UNCHANGED <<fileVars, requestVars, contested, task, copy>>

\* updateStatus writes the verdict, whatever the status and the time are by now.
Mark(p) ==
    /\ pc[p] = "mark"
    /\ status' = [status EXCEPT ![task[p].node][task[p].req] =
                    IF task[p].kind = "approve" THEN "approved" ELSE "rejected"]
    /\ pc' = [pc EXCEPT ![p] = IF task[p].kind = "approve" THEN "load" ELSE "done"]
    /\ UNCHANGED <<fileVars, requestVars, contested, task, copy>>

\* `maw consent trust` and `untrust`; `maw trust add` and `remove`, `hey --approve --trust`.
Command(p, n, m) ==
    /\ n # m
    /\ \E kind \in {"trust", "untrust", "add", "remove"} :
         Begin(p, kind, n, <<n, m>>, None, "load")
    /\ UNCHANGED <<fileVars, requestVars, verdictVars, copy>>

\* Mutant: the file is not read before it is written.
LoadNothing(p) ==
    LET t == task[p] IN
    /\ pc[p] = "load"
    /\ copy' = [copy EXCEPT ![p] = [shape |-> Shape(t.kind), of |-> After(t.kind, t.key, {})]]
    /\ clash' = IF \E q \in Proc \ {p} : Writing(q, t.node) THEN clash \cup {t.node} ELSE clash
    /\ pc' = [pc EXCEPT ![p] = "write"]
    /\ UNCHANGED <<file, tmp, granted, requestVars, verdictVars, task>>

Load(p) ==
    LET t == task[p]
        of == As(Shape(t.kind), file[t.node])
        foreign == file[t.node].shape \notin {"none", Shape(t.kind)}
        overlaps == \E q \in Proc \ {p} : Writing(q, t.node)
    IN
    /\ pc[p] = "load"
    /\ IF Idle(t.kind, t.key, of)
         THEN /\ pc' = [pc EXCEPT ![p] = "done"]
              /\ UNCHANGED <<copy, clash>>
         ELSE /\ copy' = [copy EXCEPT ![p] =
                            [shape |-> Shape(t.kind), of |-> After(t.kind, t.key, of)]]
              /\ clash' = IF foreign \/ overlaps THEN clash \cup {t.node} ELSE clash
              /\ pc' = [pc EXCEPT ![p] = "write"]
    /\ UNCHANGED <<file, tmp, granted, requestVars, verdictVars, task>>

WriteTmp(p) ==
    /\ pc[p] = "write"
    /\ tmp' = [tmp EXCEPT ![task[p].node] = copy[p]]
    /\ pc' = [pc EXCEPT ![p] = "rename"]
    /\ UNCHANGED <<file, granted, clash, requestVars, verdictVars, task, copy>>

\* Whatever is at trust.json.tmp by now becomes trust.json; nothing there is an error.
Rename(p) ==
    LET t == task[p] n == t.node s == Shape(t.kind) IN
    /\ pc[p] = "rename"
    /\ IF tmp[n] = Absent
         THEN pc' = [pc EXCEPT ![p] = "failed"] /\ UNCHANGED <<file, tmp, granted>>
         ELSE /\ file' = [file EXCEPT ![n] = tmp[n]]
              /\ tmp' = [tmp EXCEPT ![n] = Absent]
              /\ granted' = [granted EXCEPT ![n] =
                   {g \in @ : g[1] # s} \cup
                   {<<s, k>> : k \in After(t.kind, t.key, {g[2] : g \in {h \in @ : h[1] = s}})}]
              /\ pc' = [pc EXCEPT ![p] = "done"]
    /\ UNCHANGED <<clash, requestVars, verdictVars, task, copy>>

Dies(p) ==
    /\ pc[p] \in {"mark", "load", "write", "rename"}
    /\ pc' = [pc EXCEPT ![p] = "dead"]
    /\ UNCHANGED <<fileVars, requestVars, verdictVars, task, copy>>

ConsentNext ==
    \/ \E n, m \in Node, r \in Request : Asks(n, m, r)
    \/ \E r \in Request : Stored(r) \/ Answered(r) \/ Expires(r)
    \/ \E p \in Proc :
        \/ Mark(p) \/ Load(p) \/ WriteTmp(p) \/ Rename(p) \/ Dies(p)
        \/ \E n, m \in Node : Command(p, n, m)
        \/ \E n \in Node, r \in Request, kind \in {"approve", "reject"} : ReadRequest(p, n, r, kind)

ConsentSpec == ConsentInit /\ [][ConsentNext]_consentVars

-----------------------------------------------------------------------------
\* Every variable has its type.
ConsentTypeOK ==
    /\ file \in [Node -> Content] /\ tmp \in [Node -> Content]
    /\ ask \in [Request -> Key \cup {None}]
    /\ status \in [Node -> [Request -> {"none", "pending", "approved", "rejected"}]]
    /\ post \in [Request -> {"none", "sent", "stored", "answered", "failed"}]
    /\ late \subseteq Request
    /\ task \in [Proc -> [kind : {"none", "approve", "reject", "trust", "untrust", "add", "remove"},
                          node : Node \cup {None}, key : Key \cup {None},
                          req : Request \cup {None}]]
    /\ pc \in [Proc -> {"idle", "mark", "load", "write", "rename", "done", "failed", "dead"}]
    /\ copy \in [Proc -> Content]
    /\ granted \in [Node -> SUBSET ({"object", "array"} \X Key)]
    /\ clash \subseteq Node
    /\ contested \subseteq Node \X Request

\* Until two writers overlap on a node, or the two stores meet in its trust.json, the
\* file says exactly what the node was told to trust and not told to forget, deaths and
\* left-over tmp files notwithstanding.
TrustIsAsGranted ==
    \A n \in Node \ clash, k \in Key, s \in {"object", "array"} :
        <<s, k>> \in granted[n] <=> k \in As(s, file[n])

Finished(p, kind, n, r) ==
    pc[p] = "done" /\ task[p].kind = kind /\ task[p].node = n /\ task[p].req = r

\* Its approval is on the way from the request to the trust file, or was broken off.
Approving(p, n, r) ==
    /\ task[p].kind = "approve" /\ task[p].node = n /\ task[p].req = r
    /\ pc[p] \in {"load", "write", "rename", "dead"}

Forgot(n, k) ==
    \E p \in Proc : task[p].kind = "untrust" /\ task[p].node = n /\ task[p].key = k

\* An approval that ended well has its effect; one that is marked on the request and has
\* none was broken off between the two writes.  A rejected request grants nothing,
\* unless the other verdict was under way when it was rejected.
VerdictsTakeEffect ==
    \A n \in Node, r \in Request :
        /\ status[n][r] = "approved" /\ n \notin clash /\ ~Forgot(n, ask[r]) =>
             \/ IsTrusted(n, ask[r])
             \/ \E p \in Proc : Approving(p, n, r)
        /\ status[n][r] = "rejected" /\ <<n, r>> \notin contested =>
             ~\E p \in Proc : Finished(p, "approve", n, r)

\* docs/federation/consent-design.md:82 and :46: both nodes write their entry when the
\* consent is approved, and "subsequent `maw hey` skips consent entirely".
ApprovalOpensTheGate ==
    \A r \in Request, p \in Proc :
        Finished(p, "approve", ask[r][2], r) => IsTrusted(ask[r][1], ask[r])
=============================================================================
