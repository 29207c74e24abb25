-------------------------- MODULE Automation_proofs --------------------------
(***************************************************************************)
(* Safety of the service's automation, for any number of jobs, broadcasts, *)
(* rules, destinations and disturbances: what the stores keep of the       *)
(* requests and the occurrences they have answered, what the outbox knows  *)
(* of its messages, what the history of an alert's media says, the types   *)
(* of all that the tasks hold, and that a followed job is not exchanged.   *)
(* Each part has an invariant of its own; the parts meet in the store.     *)
(***************************************************************************)
EXTENDS Automation, TLAPS, FiniteSetTheorems, SequenceTheorems, WellFoundedInduction

----------------------------------------------------------------------------
\* What becomes of a row.

Present(r) == r.state \notin {"absent", "deleted"}
Follows(x, r) == x \in Row /\ Present(x) /\ x.video = r.video /\ x.key = r.key

LEMMA NewJobRow ==
  ASSUME NEW state \in States, NEW key \in Nat, NEW q, q.video \in Video, q.kind \in Kind, q.until \in Until
  PROVE  /\ NewJob(state, q, key) \in Row
         /\ NewJob(state, q, key).state = state
         /\ NewJob(state, q, key).video = q.video
         /\ NewJob(state, q, key).key = key
BY StoreAssumption DEF NewJob, Row

LEMMA HaltedFollows ==
  ASSUME NEW r \in Row, Present(r)
  PROVE  Follows(Halted(r), r)
<1>1. PICK e \in {"finalizing", "stopped"} : Halted(r) = [r EXCEPT !.stop = TRUE, !.state = e]
  <2>1. CASE r.begun
    BY <2>1 DEF Halted
  <2>2. CASE ~r.begun
    BY <2>2 DEF Halted
  <2> QED
    BY <2>1, <2>2
<1> QED
  BY <1>1 DEF Row, States, Terminal, Follows, Present

LEMMA LifeFollows ==
  ASSUME NEW r \in Row, Present(r), NEW x \in Life(r)
  PROVE  Follows(x, r)
<1> USE StoreAssumption DEF Row, States, Terminal, Follows, Present
<1>1. CASE x \in Starts(r)
  <2>1. x = [r EXCEPT !.state = "recording", !.begun = TRUE, !.media = "none", !.stalled = FALSE]
    BY <1>1 DEF Starts, When
  <2> QED
    BY <2>1
<1>2. CASE x \in Receives(r) \cup Stalls(r) \cup Reconnects(r)
  BY <1>2 DEF Receives, Stalls, Reconnects, When
<1>3. CASE x \in Disconnects(r)
  <2>1. PICK b \in BOOLEAN :
          x = [r EXCEPT !.state = "reconnecting", !.stalled = b,
                        !.retries = IF @ < Often THEN @ + 1 ELSE @]
    BY <1>3 DEF Disconnects, When
  <2>2. (IF r.retries < Often THEN r.retries + 1 ELSE r.retries) \in 0..Often
    OBVIOUS
  <2> QED
    BY <2>1, <2>2
<1>4. CASE x \in Finishes(r)
  <2>1. \/ \E e \in {"finalizing", "failed", "stopped", "completed", "partial"} : x = [r EXCEPT !.state = e]
        \/ x = Halted(r)
    BY <1>4 DEF Finishes, When
  <2> QED
    BY <2>1, HaltedFollows
<1> QED
  BY <1>1, <1>2, <1>3, <1>4 DEF Life

LEMMA StoppedFollows ==
  ASSUME NEW r \in Row, Present(r), NEW x \in Stopped(r)
  PROVE  Follows(x, r)
<1>1. x = [r EXCEPT !.stop = TRUE] \/ x = Halted(r)
  BY DEF Stopped, When
<1> QED
  BY <1>1, HaltedFollows DEF Row, States, Terminal, Follows, Present

LEMMA RetriedFollows ==
  ASSUME NEW r \in Row, Present(r), NEW x \in Retried(r) \cup Repaired(r)
  PROVE  Follows(x, r)
<1>1. 0 \in 0..Often
  BY StoreAssumption
<1>2. \/ x = [r EXCEPT !.state = "waiting", !.until = "none", !.stop = FALSE, !.retries = 0,
                         !.unrecovered = FALSE]
      \/ x = [r EXCEPT !.state = "finalizing", !.until = "none", !.stop = FALSE]
  BY DEF Retried, Repaired, When
<1>3. CASE x = [r EXCEPT !.state = "waiting", !.until = "none", !.stop = FALSE, !.retries = 0,
                         !.unrecovered = FALSE]
  BY <1>1, <1>3 DEF Row, States, Terminal, Until, Follows, Present
<1>4. CASE x = [r EXCEPT !.state = "finalizing", !.until = "none", !.stop = FALSE]
  BY <1>4 DEF Row, States, Terminal, Until, Follows, Present
<1> QED
  BY <1>2, <1>3, <1>4

LEMMA RecoveredFollows ==
  ASSUME NEW r \in Row
  PROVE  /\ Recovered(r) \in Row
         /\ Recovered(r).video = r.video /\ Recovered(r).key = r.key
         /\ (Present(r) => Present(Recovered(r)))
         /\ (~Present(r) => Recovered(r) = r)
<1>1. CASE Recovered(r) = r
  BY <1>1
<1>2. CASE Present(r) /\ Recovered(r) = Halted(r)
  BY <1>2, HaltedFollows DEF Follows
<1>3. CASE Present(r) /\ Recovered(r) = [r EXCEPT !.state = "waiting"]
  BY <1>3 DEF Row, States, Present
<1> QED
  BY <1>1, <1>2, <1>3 DEF Recovered, Present

----------------------------------------------------------------------------
\* What becomes of a store. A job that was made stays made, for its broadcast.

StoreType(s) == s \in [jobs : [Job -> Row], runs : {s.runs}, requests : {s.requests}]
Persist(s, t) ==
  /\ StoreType(t)
  /\ \A j \in Job : s.jobs[j].state # "absent" =>
       t.jobs[j].state # "absent" /\ t.jobs[j].video = s.jobs[j].video

LEMMA EmptyType == Request # {} => StoreType(EmptyStore)
<1> SUFFICES ASSUME Request # {} PROVE StoreType(EmptyStore)
  OBVIOUS
<1> DEFINE q == CHOOSE r \in Request : TRUE
<1>1. q \in Request
  OBVIOUS
<1>2. q.video \in Video /\ q.kind \in Kind /\ q.until \in Until
  BY <1>1 DEF Request
<1>3. NewJob("absent", q, 0) \in Row
  <2> HIDE DEF q
  <2> QED BY <1>2, NewJobRow DEF States
<1> QED
  BY <1>3 DEF EmptyStore, StoreType

LEMMA SetPersists ==
  ASSUME NEW s, StoreType(s), NEW j \in Job, NEW x, Follows(x, s.jobs[j])
  PROVE  /\ Persist(s, SetJob(s, j, x))
         /\ SetJob(s, j, x).jobs = [s.jobs EXCEPT ![j] = x]
         /\ SetJob(s, j, x).runs = s.runs
         /\ SetJob(s, j, x).requests = s.requests
BY DEF StoreType, Persist, SetJob, Follows, Present

LEMMA DeletedPersists ==
  ASSUME NEW s, StoreType(s), NEW j \in Job
  PROVE  /\ Persist(s, Deleted(s, j))
         /\ Deleted(s, j).jobs[j].state = "deleted"
         /\ \A k \in Job \ {j} : Deleted(s, j).jobs[k] = s.jobs[k]
         /\ Deleted(s, j).runs = s.runs
         /\ Deleted(s, j).requests = {q \in s.requests : q[2] # j}
<1>1. s.jobs[j].video \in Video /\ s.jobs[j].kind \in Kind /\ s.jobs[j].until \in Until
  BY DEF StoreType, Row
<1> DEFINE q == s.jobs[j]
           x == NewJob("deleted", q, 0)
<1>2. x \in Row /\ x.state = "deleted" /\ x.video = s.jobs[j].video
  <2>1. q.video \in Video /\ q.kind \in Kind /\ q.until \in Until
    BY <1>1
  <2>2. "deleted" \in States /\ 0 \in Nat
    BY DEF States
  <2> HIDE DEF q
  <2>3. x \in Row /\ x.state = "deleted" /\ x.video = q.video
    BY <2>1, <2>2, NewJobRow
  <2> QED
    BY <2>3 DEF q
<1>3. Deleted(s, j) = [s EXCEPT !.jobs = [s.jobs EXCEPT ![j] = x], !.requests = {p \in s.requests : p[2] # j}]
  BY DEF Deleted
<1> HIDE DEF x
<1>4. StoreType(Deleted(s, j))
  <2>1. s \in [jobs : [Job -> Row], runs : {s.runs}, requests : {s.requests}]
    BY DEF StoreType
  <2>2. [s.jobs EXCEPT ![j] = x] \in [Job -> Row]
    BY <1>2, <2>1
  <2> DEFINE jobs == [s.jobs EXCEPT ![j] = x]
             requests == {p \in s.requests : p[2] # j}
  <2>3. Deleted(s, j) = [s EXCEPT !.jobs = jobs, !.requests = requests] /\ jobs \in [Job -> Row]
    BY <1>3, <2>2
  <2> HIDE DEF jobs, requests
  <2>4. Deleted(s, j) = [jobs |-> jobs, runs |-> s.runs, requests |-> requests]
    BY <2>1, <2>3
  <2> QED
    BY <2>3, <2>4 DEF StoreType
<1>5. \A k \in Job \ {j} : Deleted(s, j).jobs[k] = s.jobs[k]
  BY <1>3 DEF StoreType
<1>6. Deleted(s, j).jobs[j] = x
  BY <1>3 DEF StoreType
<1>7. Deleted(s, j).runs = s.runs /\ Deleted(s, j).requests = {p \in s.requests : p[2] # j}
  BY <1>3 DEF StoreType
<1> QED
  BY <1>2, <1>4, <1>5, <1>6, <1>7 DEF Persist

----------------------------------------------------------------------------
\* What a request is answered with (add_job_keyed).

LEMMA MatchingStands ==
  ASSUME NEW s, NEW request, NEW automatic, NEW j \in Matching(s, request, automatic)
  PROVE  j \in Job /\ Present(s.jobs[j]) /\ s.jobs[j].video = request.video
BY DEF Matching, Newest, Stands, Present

LEMMA ConsumedPersists ==
  ASSUME NEW s, StoreType(s), NEW occurrence
  PROVE  /\ Persist(s, Consumed(s, occurrence))
         /\ Consumed(s, occurrence).jobs = s.jobs
         /\ Consumed(s, occurrence).runs = s.runs \cup occurrence
         /\ Consumed(s, occurrence).requests = s.requests
BY DEF StoreType, Persist, Consumed

\* What is noted of a request with an identity; without one the key is 0.
Identified(key, j) == IF key = 0 THEN {} ELSE {<<key, j>>}

LEMMA RequestedPersists ==
  ASSUME NEW s, StoreType(s), NEW key, NEW j
  PROVE  /\ Persist(s, Requested(s, key, j))
         /\ Requested(s, key, j).jobs = s.jobs
         /\ Requested(s, key, j).runs = s.runs
         /\ Requested(s, key, j).requests = s.requests \cup Identified(key, j)
<1>1. CASE key = 0
  BY <1>1 DEF StoreType, Persist, Requested, Identified
<1>2. CASE key # 0
  BY <1>2 DEF StoreType, Persist, Requested, Identified
<1> QED
  BY <1>1, <1>2

LEMMA CreatedPersists ==
  ASSUME NEW s, StoreType(s), NEW request \in Request, NEW key \in Nat, NEW occurrence, NEW j \in Unused(s),
         NEW a, a = Created(s, request, key, occurrence, j)
  PROVE  /\ a.job = j /\ j \in Job /\ s.jobs[j].state = "absent"
         /\ a.store.jobs[j].state = "waiting" /\ a.store.jobs[j].video = request.video
         /\ a.store.jobs[j].key = key
         /\ \A k \in Job \ {j} : a.store.jobs[k] = s.jobs[k]
         /\ Persist(s, a.store)
         /\ a.store.runs = s.runs \cup occurrence
         /\ a.store.requests = s.requests \cup Identified(key, j)
<1> DEFINE x == NewJob("waiting", request, key)
           t == SetJob(s, j, x)
           u == Consumed(t, occurrence)
           w == Requested(u, key, j)
<1>1. request.video \in Video /\ request.kind \in Kind /\ request.until \in Until
  BY DEF Request
<1>2. x \in Row /\ x.state = "waiting" /\ x.video = request.video /\ x.key = key
  <2>1. "waiting" \in States
    BY DEF States
  <2> QED
    BY <1>1, <2>1, NewJobRow
<1>3. j \in Job /\ s.jobs[j].state = "absent"
  BY DEF Unused
<1>4. Created(s, request, key, occurrence, j) = [store |-> w, job |-> j]
  BY DEF Created, Answer
<1> HIDE DEF x
<1>5. StoreType(t) /\ t.jobs = [s.jobs EXCEPT ![j] = x] /\ t.runs = s.runs /\ t.requests = s.requests
  BY <1>2, <1>3 DEF StoreType, SetJob
<1> HIDE DEF t
<1>6. StoreType(u) /\ u.jobs = t.jobs /\ u.runs = t.runs \cup occurrence /\ u.requests = t.requests
  BY <1>5, ConsumedPersists DEF Persist
<1> HIDE DEF u
<1>7. /\ StoreType(w) /\ w.jobs = u.jobs /\ w.runs = u.runs
      /\ w.requests = u.requests \cup Identified(key, j)
  BY <1>6, RequestedPersists DEF Persist
<1> HIDE DEF w
<1>8. w.jobs = [s.jobs EXCEPT ![j] = x]
  BY <1>5, <1>6, <1>7
<1>9. Persist(s, w)
  BY <1>2, <1>3, <1>7, <1>8 DEF Persist, StoreType
<1>10. /\ w.runs = s.runs \cup occurrence
       /\ w.requests = s.requests \cup Identified(key, j)
  BY <1>5, <1>6, <1>7
<1>11. Created(s, request, key, occurrence, j).store = w /\ Created(s, request, key, occurrence, j).job = j
  BY <1>4
<1>12. w.jobs[j] = x /\ \A k \in Job \ {j} : w.jobs[k] = s.jobs[k]
  BY <1>3, <1>8 DEF StoreType
<1> QED
  BY <1>2, <1>3, <1>9, <1>10, <1>11, <1>12

\* A request without an identity: of a user or of the monitor.
LEMMA AnsweredHere ==
  ASSUME NEW s, StoreType(s), NEW request \in Request, NEW automatic, NEW occurrence,
         NEW a \in Answers(s, request, automatic, 0, occurrence)
  PROVE  /\ a.job \in Job /\ Persist(s, a.store)
         /\ occurrence \cap s.runs = {}
         /\ a.store.runs = s.runs \cup occurrence
         /\ a.store.requests = s.requests
         /\ a.store.jobs[a.job].state # "absent" /\ a.store.jobs[a.job].video = request.video
         /\ \A j \in Job : a.store.jobs[j] = s.jobs[j] \/ a.store.jobs[j].state = "waiting"
         /\ \A j \in Job : s.jobs[j].state # "absent" => a.store.jobs[j] = s.jobs[j]
         /\ \A j \in Job : a.store.jobs[j] # s.jobs[j] => a.store.jobs[j].key = 0
<1> DEFINE same == Matching(s, request, automatic)
<1>1. occurrence \cap s.runs = {}
  BY DEF Answers
<1>2. \/ \E j \in same : a = Answer(Consumed(s, occurrence), j)
      \/ occurrence = {} /\ \E j \in same : a = Answer(Requested(s, 0, j), j)
      \/ \E j \in Unused(s) : a = Created(s, request, 0, occurrence, j)
  BY DEF Answers
<1>3. CASE \E j \in same : a = Answer(Consumed(s, occurrence), j)
  <2>1. PICK j \in same : a = Answer(Consumed(s, occurrence), j)
    BY <1>3
  <2>2. a.store = Consumed(s, occurrence) /\ a.job = j
    BY <2>1 DEF Answer
  <2>3. j \in Job /\ Present(s.jobs[j]) /\ s.jobs[j].video = request.video
    BY <2>1, MatchingStands
  <2> QED
    BY <1>1, <2>2, <2>3, ConsumedPersists DEF Present
<1>4. CASE occurrence = {} /\ \E j \in same : a = Answer(Requested(s, 0, j), j)
  <2>1. PICK j \in same : a = Answer(Requested(s, 0, j), j)
    BY <1>4
  <2>2. a.store = Requested(s, 0, j) /\ a.job = j
    BY <2>1 DEF Answer
  <2>3. j \in Job /\ Present(s.jobs[j]) /\ s.jobs[j].video = request.video
    BY <2>1, MatchingStands
  <2>4. /\ Persist(s, a.store) /\ a.store.jobs = s.jobs
        /\ a.store.runs = s.runs /\ a.store.requests = s.requests
    BY <2>2 DEF Requested, Persist
  <2> QED
    BY <1>1, <1>4, <2>2, <2>3, <2>4 DEF Present
<1>5. CASE \E j \in Unused(s) : a = Created(s, request, 0, occurrence, j)
  <2> DEFINE key == 0
  <2>1. PICK j \in Unused(s) : a = Created(s, request, key, occurrence, j)
    BY <1>5
  <2>2. key \in Nat /\ key = 0
    OBVIOUS
  <2> HIDE DEF key
  <2>3. /\ a.job = j /\ j \in Job /\ s.jobs[j].state = "absent"
        /\ a.store.jobs[j].state = "waiting" /\ a.store.jobs[j].video = request.video
        /\ a.store.jobs[j].key = key
        /\ \A k \in Job \ {j} : a.store.jobs[k] = s.jobs[k]
        /\ Persist(s, a.store)
        /\ a.store.runs = s.runs \cup occurrence
        /\ a.store.requests = s.requests \cup Identified(key, j)
    BY <2>1, <2>2, CreatedPersists
  <2>5. a.store.requests = s.requests
    BY <2>2, <2>3 DEF Identified
  <2> QED
    BY <1>1, <2>2, <2>3, <2>5
<1> QED
  BY <1>2, <1>3, <1>4, <1>5

\* The table of requests: one job per request, a job that is there, and every
\* job that was made for a request is the one it has.
Keyed(s) ==
  /\ s.requests \subseteq Job \X Job
  /\ \A q \in s.requests : Present(s.jobs[q[2]])
  /\ \A p, q \in s.requests : p[1] = q[1] => p[2] = q[2]
  /\ \A j \in Job : Present(s.jobs[j]) /\ s.jobs[j].key # 0 => <<s.jobs[j].key, j>> \in s.requests

\* A request with an identity, or of a user there: sent again, it has its job.
LEMMA AnsweredThere ==
  ASSUME NEW s, StoreType(s), Keyed(s), NEW request \in Request, NEW key \in {0} \cup Job,
         NEW a \in Answers(s, request, FALSE, key, {})
  PROVE  /\ a.job \in Job /\ Persist(s, a.store) /\ Keyed(a.store)
         /\ key # 0 => <<key, a.job>> \in a.store.requests
         /\ s.requests \subseteq a.store.requests
         /\ \A j \in Job : s.jobs[j].state # "absent" => a.store.jobs[j] = s.jobs[j]
         /\ Present(a.store.jobs[a.job])
<1> DEFINE known == IF key = 0 THEN {} ELSE Known(s, key)
           same == IF known = {} THEN Matching(s, request, FALSE) ELSE {}
<1>1. \/ \E j \in known : a = Answer(s, j)
      \/ \E j \in same : a = Answer(Requested(s, key, j), j)
      \/ known = {} /\ \E j \in Unused(s) : a = Created(s, request, key, {}, j)
  BY DEF Answers
<1>2. CASE \E j \in known : a = Answer(s, j)
  <2>1. PICK j \in known : a = Answer(s, j)
    BY <1>2
  <2>2. a.store = s /\ a.job = j /\ j \in Job /\ <<key, j>> \in s.requests
    BY <2>1 DEF Answer, Known
  <2>3. Present(s.jobs[j])
    BY <2>2 DEF Keyed
  <2> QED
    BY <2>2, <2>3 DEF Persist
<1>3. ASSUME known = {} PROVE \A q \in s.requests : q[1] = key => key = 0
  <2> SUFFICES ASSUME NEW q \in s.requests, q[1] = key, key # 0 PROVE FALSE
    OBVIOUS
  <2>1. q = <<key, q[2]>> /\ q[2] \in Job
    BY DEF Keyed
  <2> QED
    BY <1>3, <2>1 DEF Known
<1>4. CASE known = {} /\ \E j \in same : a = Answer(Requested(s, key, j), j)
  <2>1. PICK j \in Matching(s, request, FALSE) : a = Answer(Requested(s, key, j), j)
    BY <1>4
  <2>2. a.store = Requested(s, key, j) /\ a.job = j
    BY <2>1 DEF Answer
  <2>3. j \in Job /\ Present(s.jobs[j])
    BY <2>1, MatchingStands
  <2>4. Persist(s, a.store) /\ a.store.jobs = s.jobs /\ a.store.requests = s.requests \cup Identified(key, j)
    BY <2>2, RequestedPersists
  <2>5. Keyed(a.store)
    BY <1>3, <1>4, <2>3, <2>4 DEF Keyed, Identified
  <2> QED
    BY <2>2, <2>3, <2>4, <2>5 DEF Identified
<1>5. CASE known = {} /\ \E j \in Unused(s) : a = Created(s, request, key, {}, j)
  <2>1. PICK j \in Unused(s) : a = Created(s, request, key, {}, j)
    BY <1>5
  <2>2. key \in Nat
    BY StoreAssumption DEF Job
  <2>3. /\ a.job = j /\ j \in Job /\ s.jobs[j].state = "absent"
        /\ a.store.jobs[j].state = "waiting" /\ a.store.jobs[j].key = key
        /\ \A k \in Job \ {j} : a.store.jobs[k] = s.jobs[k]
        /\ Persist(s, a.store) /\ a.store.requests = s.requests \cup Identified(key, j)
    BY <2>1, <2>2, CreatedPersists
  <2>5. Present(a.store.jobs[j]) /\ ~Present(s.jobs[j])
    BY <2>3 DEF Present
  <2>6. \A q \in s.requests : q[2] # j
    BY <2>5 DEF Keyed
  <2>7. Keyed(a.store)
    BY <1>3, <1>5, <2>3, <2>5, <2>6 DEF Keyed, Identified
  <2> QED
    BY <2>3, <2>5, <2>7 DEF Identified
<1> QED
  BY <1>1, <1>2, <1>4, <1>5


----------------------------------------------------------------------------
\* The store of this service, step by step.

LEMMA JobStepsPersist ==
  ASSUME StoreType(store), JobSteps
  PROVE  Persist(store, store') /\ store'.runs = store.runs
<1>1. PICK j \in Job :
        /\ Stands(store, j)
        /\ \/ \E d \in {"none", "user"} : Deadline(j, d)
           \/ Stop(j) \/ Retry(j) \/ Recover(j) \/ Delete(j) \/ Capture(j)
  BY DEF JobSteps
<1> DEFINE r == store.jobs[j]
<1>2. r \in Row /\ Present(r)
  BY <1>1 DEF StoreType, Stands, Present
<1>3. ASSUME NEW x, Follows(x, r), store' = SetJob(store, j, x)
      PROVE  Persist(store, store') /\ store'.runs = store.runs
  BY <1>3, SetPersists
<1> HIDE DEF r
<1>4. CASE \E d \in {"none", "user"} : Deadline(j, d)
  <2>1. PICK d \in {"none", "user"} : store' = SetJob(store, j, [r EXCEPT !.until = d])
    BY <1>4 DEF Deadline, Set, r
  <2>2. Follows([r EXCEPT !.until = d], r)
    BY <1>2 DEF Follows, Present, Row, Until
  <2> QED
    BY <1>3, <2>1, <2>2
<1>5. CASE Stop(j)
  <2>1. PICK x \in Stopped(r) : store' = SetJob(store, j, x)
    BY <1>5 DEF Stop, Set, r
  <2> QED
    BY <1>2, <1>3, <2>1, StoppedFollows
<1>6. CASE Retry(j) \/ Recover(j)
  <2>1. PICK x \in Retried(r) \cup Repaired(r) : store' = SetJob(store, j, x)
    BY <1>6 DEF Retry, Recover, Set, r
  <2> QED
    BY <1>2, <1>3, <2>1, RetriedFollows
<1>7. CASE Delete(j)
  <2>1. store' = Deleted(store, j)
    BY <1>7 DEF Delete
  <2> QED
    BY <2>1, DeletedPersists
<1>8. CASE Capture(j)
  <2>1. PICK x \in Life(r) \cup {[r EXCEPT !.unrecovered = ~@]} : store' = SetJob(store, j, x)
    BY <1>8 DEF Capture, Set, r
  <2>2. Follows(x, r)
    <3>1. CASE x \in Life(r)
      BY <1>2, <3>1, LifeFollows
    <3>2. CASE x = [r EXCEPT !.unrecovered = ~@]
      <4>1. (~r.unrecovered) \in BOOLEAN
        OBVIOUS
      <4> QED
        BY <1>2, <3>2, <4>1 DEF Follows, Present, Row
    <3> QED
      BY <2>1, <3>1, <3>2
  <2> QED
    BY <1>3, <2>1, <2>2
<1> QED
  BY <1>1, <1>4, <1>5, <1>6, <1>7, <1>8

LEMMA StartPersists ==
  ASSUME StoreType(store), Start
  PROVE  Persist(store, store') /\ store'.runs = store.runs
<1>1. store' = [store EXCEPT !.jobs = [j \in Job |-> Recovered(store.jobs[j])]]
  BY DEF Start
<1>2. \A j \in Job : /\ Recovered(store.jobs[j]) \in Row
                     /\ Recovered(store.jobs[j]).video = store.jobs[j].video
                     /\ store.jobs[j].state # "absent" => Recovered(store.jobs[j]).state # "absent"
  BY RecoveredFollows DEF StoreType, Present
<1>3. /\ store'.jobs = [j \in Job |-> Recovered(store.jobs[j])]
      /\ store' \in [jobs : {store'.jobs}, runs : {store.runs}, requests : {store.requests}]
  BY <1>1 DEF StoreType
<1>4. store'.jobs \in [Job -> Row]
  BY <1>2, <1>3
<1>5. StoreType(store')
  BY <1>3, <1>4 DEF StoreType
<1>6. store'.runs = store.runs
  BY <1>3
<1>7. \A j \in Job : store'.jobs[j] = Recovered(store.jobs[j])
  BY <1>3
<1>8. \A j \in Job : store.jobs[j].state # "absent" =>
        store'.jobs[j].state # "absent" /\ store'.jobs[j].video = store.jobs[j].video
  BY <1>2, <1>7
<1> QED
  BY <1>5, <1>6, <1>8 DEF Persist

LEMMA RecordPersists ==
  ASSUME StoreType(store), NEW request \in Request, Record(request)
  PROVE  Persist(store, store') /\ store'.runs = store.runs
<1> DEFINE automatic == FALSE
           none == {}
<1>1. PICK a \in Answers(store, request, automatic, 0, none) : store' = a.store
  BY DEF Record
<1> HIDE DEF automatic, none
<1>2. Persist(store, a.store) /\ a.store.runs = store.runs \cup none
  BY AnsweredHere
<1> QED
  BY <1>1, <1>2 DEF none

\* Only a scan adds to the ledger; nobody takes a job back.
LEMMA StoreStep ==
  ASSUME StoreType(store), [Next]_vars, ~AddWindowJob
  PROVE  Persist(store, store') /\ store'.runs = store.runs
<1>1. CASE UNCHANGED store
  BY <1>1 DEF Persist
<1>2. CASE Jobs
  <2>1. CASE LocalSteps
    BY <2>1, JobStepsPersist DEF LocalSteps
  <2>2. CASE \E request \in UserRequest : Record(request)
    BY <2>2, RecordPersists DEF UserRequest
  <2> QED
    BY <1>2, <2>1, <2>2 DEF Jobs
<1>3. CASE Replicas
  <2>1. UNCHANGED store
    BY <1>3 DEF Replicas, RemoteSteps, Fanout, Courier, Take, CancelUndelivered, Call, CallFails,
                Save, Writes, storeVars
  <2> QED
    BY <1>1, <2>1
<1>4. CASE Channels
  <2>1. UNCHANGED store
    BY <1>4 DEF Channels, ChannelSteps, Scan, BeginScan, List, TakeUrl, Inspect, InspectFails, ReadLedger,
                FanoutScanned, CompleteScan, ReadForEdit, WriteEdit, DeleteChannel, AddChannel,
                SiteChanges, Tick, Quietly, Aside
  <2> QED
    BY <1>1, <2>1
<1>5. CASE Notifications
  <2>1. UNCHANGED store
    BY <1>5 DEF Notifications, OutboxSteps, Deliver, ReadDue, Arrives, NotSent, Finish, DueAgain,
                Configure, SendAgain, MayRun
  <2> QED
    BY <1>1, <2>1
<1>6. CASE Alerts
  <2>1. UNCHANGED store
    BY <1>6 DEF Alerts, Watch, Look, Reconcile, Tell
  <2> QED
    BY <1>1, <2>1
<1>7. CASE Start
  BY <1>7, StartPersists
<1> QED
  BY <1>1, <1>2, <1>3, <1>4, <1>5, <1>6, <1>7 DEF Next, vars, Crash


----------------------------------------------------------------------------
\* The monitor's occurrences.

ScanInv ==
  /\ scan \in [phase : {scan.phase}, id : {scan.id}, urls : SUBSET Video, rules : {scan.rules},
               error : {scan.error}, request : {scan.request}, key : {scan.key},
               repeat : {scan.repeat}, job : {scan.job}]
  /\ scan.phase \in {"inspecting", "ledger", "adding"} => scan.request \in Request
  /\ scan.phase \in {"ledger", "adding"} => scan.key[2] = scan.request.video
OccurrenceInv ==
  /\ StoreType(store) /\ ScanInv
  /\ \A r \in recorded : r[1] \in store.runs
  /\ OccurrenceRecordedOnce

LEMMA ScanStep == ScanInv /\ [Next]_vars => ScanInv'
<1> SUFFICES ASSUME ScanInv, [Next]_vars PROVE ScanInv'
  OBVIOUS
<1>1. CASE UNCHANGED scan
  BY <1>1 DEF ScanInv
<1>2. ASSUME NEW urls \in SUBSET Video, NEW error, Onward(urls, error) PROVE ScanInv'
  BY <1>2 DEF ScanInv, Onward, NextPhase, NoScan
<1>3. CASE scan' = NoScan
  BY <1>3 DEF ScanInv, NoScan
<1>4. CASE BeginScan
  BY <1>4 DEF BeginScan, ScanInv, NoScan
<1>5. CASE List
  BY <1>2, <1>5 DEF List, Listed
<1>6. CASE TakeUrl
  <2>1. PICK v \in scan.urls :
          \/ scan' = [scan EXCEPT !.phase = "inspecting", !.urls = @ \ {v}, !.rules = channel.rules,
                                  !.request = [video |-> v, kind |-> "live", until |-> "none"]]
          \/ Onward({}, FALSE)
    BY <1>6 DEF TakeUrl
  <2>2. v \in Video
    BY DEF ScanInv
  <2>3. [video |-> v, kind |-> "live", until |-> "none"] \in Request
    BY <2>2 DEF Request, Kind, Until
  <2>4. CASE Onward({}, FALSE)
    BY <1>2, <2>4
  <2>5. CASE ~Onward({}, FALSE)
    <3> DEFINE request == [video |-> v, kind |-> "live", until |-> "none"]
    <3>1. scan' = [scan EXCEPT !.phase = "inspecting", !.urls = @ \ {v}, !.rules = channel.rules,
                               !.request = request]
      BY <2>1, <2>5
    <3> HIDE DEF request
    <3> QED
      BY <2>3, <3>1 DEF ScanInv, request
  <2> QED
    BY <2>4, <2>5
<1>7. CASE Inspect
  <2>1. scan.request \in Request /\ scan.urls \in SUBSET Video
    BY <1>7 DEF Inspect, Scans, ScanInv
  <2>2. CASE Onward(scan.urls, FALSE)
    BY <1>2, <2>1, <2>2
  <2>3. CASE ~Onward(scan.urls, FALSE)
    <3> DEFINE until == IF scan.rules.window = {} THEN "none" ELSE "window"
               key == <<scan.id, scan.request.video, StartOf(scan.rules)>>
    <3>1. scan' = [scan EXCEPT !.phase = "ledger", !.key = key, !.repeat = scan.rules.window # {},
                               !.request.until = until]
      BY <1>7, <2>3 DEF Inspect
    <3>2. until \in Until /\ key[2] = scan.request.video
      BY DEF Until
    <3> HIDE DEF until, key
    <3>3. [scan.request EXCEPT !.until = until] \in Request
          /\ [scan.request EXCEPT !.until = until].video = scan.request.video
      BY <2>1, <3>2 DEF Request
    <3> QED
      BY <3>1, <3>2, <3>3 DEF ScanInv
  <2> QED
    BY <2>2, <2>3
<1>8. CASE InspectFails \/ ReadLedger \/ AddWindowJob \/ FanoutScanned
  <2>1. scan.urls \in SUBSET Video
    BY DEF ScanInv
  <2>2. \/ \E error \in BOOLEAN : Onward(scan.urls, error)
        \/ ReadLedger /\ scan' = [scan EXCEPT !.phase = "adding"]
        \/ \E j : scan' = [scan EXCEPT !.phase = "fanning", !.job = j]
    BY <1>8 DEF InspectFails, ReadLedger, AddWindowJob, FanoutScanned
  <2>3. CASE ReadLedger /\ scan' = [scan EXCEPT !.phase = "adding"]
    BY <2>3 DEF ReadLedger, Scans, ScanInv
  <2>4. CASE \E j : scan' = [scan EXCEPT !.phase = "fanning", !.job = j]
    BY <2>4 DEF ScanInv
  <2>5. ASSUME NEW error \in BOOLEAN, Onward(scan.urls, error) PROVE ScanInv'
    BY <1>2, <2>1, <2>5
  <2> QED
    BY <2>2, <2>3, <2>4, <2>5
<1>9. CASE CompleteScan
  BY <1>3, <1>9 DEF CompleteScan
<1>10. CASE Channels
  <2>1. Scan \/ UNCHANGED scan
    BY <1>10 DEF Channels, ChannelSteps, ReadForEdit, WriteEdit, DeleteChannel, AddChannel, SiteChanges,
                 Tick, Aside
  <2> QED
    BY <1>1, <1>4, <1>5, <1>6, <1>7, <1>8, <1>9, <2>1 DEF Scan
<1>11. CASE Crash
  BY <1>3, <1>11 DEF Crash
<1> QED
  BY <1>1, <1>10, <1>11
  DEF Next, vars, Jobs, Replicas, Notifications, Alerts, Start, monitorVars

LEMMA AddWindowJobStep ==
  ASSUME OccurrenceInv, AddWindowJob
  PROVE  OccurrenceInv' \/ ~ScanInv'
<1>1. scan.request \in Request /\ scan.key[2] = scan.request.video
  BY DEF OccurrenceInv, ScanInv, AddWindowJob, Scans
<1>2. CASE UNCHANGED <<store, recorded>>
  BY <1>2 DEF OccurrenceInv, OccurrenceRecordedOnce
<1>3. CASE ~UNCHANGED <<store, recorded>>
  <2>1. PICK a \in Answers(store, scan.request, ~scan.repeat, 0, {scan.key}) :
          /\ store' = a.store
          /\ recorded' = IF Stands(store, a.job) THEN recorded ELSE recorded \cup {<<scan.key, a.job>>}
    BY <1>3 DEF AddWindowJob
  <2>2. /\ a.job \in Job /\ Persist(store, store') /\ scan.key \notin store.runs
        /\ store'.runs = store.runs \cup {scan.key}
        /\ store'.jobs[a.job].state # "absent" /\ store'.jobs[a.job].video = scan.key[2]
    BY <1>1, <2>1, AnsweredHere DEF OccurrenceInv
  <2>3. \A r \in recorded' : r[1] \in store'.runs
    BY <2>1, <2>2 DEF OccurrenceInv
  <2>4. \A r, q \in recorded' : r[1] = q[1] => r[2] = q[2]
    BY <2>1, <2>2 DEF OccurrenceInv, OccurrenceRecordedOnce
  <2>5. \A key \in store'.runs : \E j \in Job : store'.jobs[j].state # "absent" /\ store'.jobs[j].video = key[2]
    <3> SUFFICES ASSUME NEW key \in store'.runs
                 PROVE  \E j \in Job : store'.jobs[j].state # "absent" /\ store'.jobs[j].video = key[2]
      OBVIOUS
    <3>1. CASE key = scan.key
      BY <2>2, <3>1
    <3>2. CASE key \in store.runs
      <4>1. PICK j \in Job : store.jobs[j].state # "absent" /\ store.jobs[j].video = key[2]
        BY <3>2 DEF OccurrenceInv, OccurrenceRecordedOnce
      <4> QED
        BY <2>2, <4>1 DEF Persist
    <3> QED
      BY <2>2, <3>1, <3>2
  <2> QED
    BY <2>2, <2>3, <2>4, <2>5 DEF OccurrenceInv, OccurrenceRecordedOnce, Persist
<1> QED
  BY <1>2, <1>3

LEMMA OccurrenceStep == OccurrenceInv /\ [Next]_vars => OccurrenceInv'
<1> SUFFICES ASSUME OccurrenceInv, [Next]_vars PROVE OccurrenceInv'
  OBVIOUS
<1>1. ScanInv'
  BY ScanStep DEF OccurrenceInv
<1>2. CASE AddWindowJob
  BY <1>1, <1>2, AddWindowJobStep
<1>3. CASE ~AddWindowJob
  <2>1. Persist(store, store') /\ store'.runs = store.runs
    BY <1>3, StoreStep DEF OccurrenceInv
  <2>2. UNCHANGED recorded
    <3>1. CASE Channels
      BY <1>3, <3>1 DEF Channels, ChannelSteps, Scan, BeginScan, List, TakeUrl, Inspect, InspectFails,
                ReadLedger, FanoutScanned, CompleteScan, ReadForEdit, WriteEdit, DeleteChannel,
                AddChannel, SiteChanges, Tick, Quietly, Aside
    <3> QED
      BY <3>1 DEF Next, vars, Jobs, Replicas, Notifications, Alerts, Crash, Start, monitorVars
  <2>3. \A key \in store'.runs : \E j \in Job : store'.jobs[j].state # "absent" /\ store'.jobs[j].video = key[2]
    <3> SUFFICES ASSUME NEW key \in store'.runs
                 PROVE  \E j \in Job : store'.jobs[j].state # "absent" /\ store'.jobs[j].video = key[2]
      OBVIOUS
    <3>1. PICK j \in Job : store.jobs[j].state # "absent" /\ store.jobs[j].video = key[2]
      BY <2>1 DEF OccurrenceInv, OccurrenceRecordedOnce
    <3> QED
      BY <2>1, <3>1 DEF Persist
  <2> QED
    BY <1>1, <2>1, <2>2, <2>3 DEF OccurrenceInv, OccurrenceRecordedOnce, Persist
<1> QED
  BY <1>2, <1>3

LEMMA OneRequest == Request # {}
<1>1. PICK v : v \in Video
  BY StoreAssumption
<1>2. [video |-> v, kind |-> "live", until |-> "none"] \in Request
  BY <1>1 DEF Request, Kind, Until
<1> QED
  BY <1>2

LEMMA OccurrenceInit == Init => OccurrenceInv
<1> SUFFICES ASSUME Init PROVE OccurrenceInv
  OBVIOUS
<1>1. store = EmptyStore /\ StoreType(store) /\ store.runs = {}
  BY OneRequest, EmptyType DEF Init, StoreInit, EmptyStore
<1>2. scan = NoScan /\ recorded = {}
  BY DEF Init, MonitorInit
<1>3. ScanInv
  BY <1>2 DEF ScanInv, NoScan
<1> QED
  BY <1>1, <1>2, <1>3 DEF OccurrenceInv, OccurrenceRecordedOnce

\* A broadcast is recorded once per window, or once at all without a window,
\* whatever becomes of the job, the channel and its rules, and the ledger has
\* no occurrence without a job (add_window_job, complete_channel_scan).
THEOREM OccurrencesAreRecordedOnce == Spec => []OccurrenceRecordedOnce
<1>1. OccurrenceInv => OccurrenceRecordedOnce
  BY DEF OccurrenceInv
<1> QED
  BY <1>1, OccurrenceInit, OccurrenceStep, PTL DEF Spec


----------------------------------------------------------------------------
\* The other service and what is known of it here.

\* What the answer to an earlier call still says.
Remembers(s, t) ==
  /\ StoreType(t) /\ Keyed(t)
  /\ \A a \in Job : s.jobs[a].state # "absent" =>
       /\ t.jobs[a].state # "absent"
       /\ Present(t.jobs[a]) => Present(s.jobs[a])
  /\ \A q \in s.requests : Present(t.jobs[q[2]]) => q \in t.requests
\* A job here follows job a there, or nothing, or one that was deleted.
Knows(s, j, a) ==
  a \in Job => /\ s.jobs[a].state # "absent"
               /\ Present(s.jobs[a]) => <<j, a>> \in s.requests
DeliveryType(d) == d \in [state : {d.state}, remote : {0} \cup Job, tries : {d.tries}]
CourierType ==
  courier \in [phase : {courier.phase}, job : {courier.job}, copy : {courier.copy}, row : {courier.row},
               at : {0} \cup Job, seen : {courier.seen}, ok : {courier.ok}]
CourierInv ==
  /\ CourierType
  /\ courier.phase # "idle" =>
       /\ courier.job \in Job /\ courier.row \in Row /\ DeliveryType(courier.copy)
       /\ Knows(remote, courier.job, courier.at)
       /\ Knows(remote, courier.job, courier.copy.remote)
ReplicaInv ==
  /\ replica = [j \in Job |-> replica[j]]
  /\ \A j \in Job : DeliveryType(replica[j]) /\ Knows(remote, j, replica[j].remote)
RemoteInv == StoreType(remote) /\ Keyed(remote) /\ CourierInv /\ ReplicaInv

LEMMA ZeroIsNoJob == 0 \notin Job
BY StoreAssumption DEF Job

LEMMA SameRemembers ==
  ASSUME NEW s, StoreType(s), Keyed(s)
  PROVE  Remembers(s, s)
BY DEF Remembers

LEMMA SetRemembers ==
  ASSUME NEW s, StoreType(s), Keyed(s), NEW j \in Job, Present(s.jobs[j]), NEW x, Follows(x, s.jobs[j])
  PROVE  Remembers(s, SetJob(s, j, x))
<1> DEFINE t == SetJob(s, j, x)
<1>1. StoreType(t) /\ t.jobs = [s.jobs EXCEPT ![j] = x] /\ t.requests = s.requests
  BY SetPersists DEF Persist
<1> HIDE DEF t
<1>2. t.jobs[j] = x /\ \A k \in Job \ {j} : t.jobs[k] = s.jobs[k]
  BY <1>1 DEF StoreType
<1>3. Present(x) /\ x.key = s.jobs[j].key
  BY DEF Follows
<1>4. \A k \in Job : (Present(t.jobs[k]) <=> Present(s.jobs[k])) /\ t.jobs[k].key = s.jobs[k].key
  BY <1>2, <1>3
<1>5. Keyed(t)
  BY <1>1, <1>4 DEF Keyed
<1>6. \A k \in Job : s.jobs[k].state # "absent" => t.jobs[k].state # "absent"
  BY <1>2, <1>3 DEF Present
<1>7. Remembers(s, t)
  BY <1>1, <1>4, <1>5, <1>6 DEF Remembers
<1> QED
  BY <1>7 DEF t

LEMMA DeletedRemembers ==
  ASSUME NEW s, StoreType(s), Keyed(s), NEW j \in Job
  PROVE  Remembers(s, Deleted(s, j))
<1> DEFINE t == Deleted(s, j)
<1>1. /\ StoreType(t) /\ t.jobs[j].state = "deleted"
      /\ \A k \in Job \ {j} : t.jobs[k] = s.jobs[k]
      /\ t.requests = {q \in s.requests : q[2] # j}
  BY DeletedPersists DEF Persist
<1> HIDE DEF t
<1>2. ~Present(t.jobs[j])
  BY <1>1 DEF Present
<1>3. Keyed(t)
  BY <1>1, <1>2 DEF Keyed
<1>4. \A k \in Job : s.jobs[k].state # "absent" =>
        t.jobs[k].state # "absent" /\ (Present(t.jobs[k]) => Present(s.jobs[k]))
  BY <1>1, <1>2
<1>5. \A q \in s.requests : Present(t.jobs[q[2]]) => q \in t.requests
  BY <1>1, <1>2 DEF Keyed
<1>6. Remembers(s, t)
  BY <1>1, <1>3, <1>4, <1>5 DEF Remembers
<1> QED
  BY <1>6 DEF t

LEMMA AnswerRemembers ==
  ASSUME NEW s, StoreType(s), Keyed(s), NEW request \in Request, NEW key \in {0} \cup Job,
         NEW a \in Answers(s, request, FALSE, key, {})
  PROVE  /\ a.job \in Job /\ Remembers(s, a.store) /\ Present(a.store.jobs[a.job])
         /\ key # 0 => <<key, a.job>> \in a.store.requests
<1> DEFINE t == a.store
<1>1. /\ a.job \in Job /\ StoreType(t) /\ Keyed(t) /\ s.requests \subseteq t.requests
      /\ \A j \in Job : s.jobs[j].state # "absent" => t.jobs[j] = s.jobs[j]
      /\ Present(t.jobs[a.job])
      /\ key # 0 => <<key, a.job>> \in t.requests
  BY AnsweredThere DEF Persist
<1> HIDE DEF t
<1>2. Remembers(s, t)
  BY <1>1 DEF Remembers
<1> QED
  BY <1>1, <1>2 DEF t

LEMMA KnowsStill ==
  ASSUME NEW s, NEW t, Remembers(s, t), NEW j, NEW a, Knows(s, j, a)
  PROVE  Knows(t, j, a)
<1> SUFFICES ASSUME a \in Job PROVE t.jobs[a].state # "absent" /\ (Present(t.jobs[a]) => <<j, a>> \in t.requests)
  BY DEF Knows
<1>1. s.jobs[a].state # "absent" /\ (Present(s.jobs[a]) => <<j, a>> \in s.requests)
  BY DEF Knows
<1>2. t.jobs[a].state # "absent" /\ (Present(t.jobs[a]) => Present(s.jobs[a]))
  BY <1>1 DEF Remembers
<1>3. ASSUME Present(t.jobs[a]) PROVE <<j, a>> \in t.requests
  <2>1. <<j, a>> \in s.requests /\ <<j, a>>[2] = a
    BY <1>1, <1>2, <1>3
  <2> QED
    BY <1>3, <2>1 DEF Remembers
<1> QED
  BY <1>2, <1>3


LEMMA RemoteStepsRemember ==
  ASSUME StoreType(remote), Keyed(remote), RemoteSteps
  PROVE  Remembers(remote, remote')
<1>1. CASE \E request \in UserRequest : RemoteUser(request)
  <2> DEFINE key == 0
  <2>1. PICK request \in Request : \E a \in Answers(remote, request, FALSE, key, {}) : remote' = a.store
    BY <1>1 DEF RemoteUser, UserRequest
  <2>2. key \in {0} \cup Job
    OBVIOUS
  <2> HIDE DEF key
  <2>4. PICK a \in Answers(remote, request, FALSE, key, {}) : remote' = a.store
    BY <2>1
  <2>3. Remembers(remote, a.store)
    BY <2>2, AnswerRemembers
  <2> QED
    BY <2>3, <2>4
<1>2. CASE \E j \in Job : Stands(remote, j) /\ RemoteJob(j)
  <2>1. PICK j \in Job : Stands(remote, j) /\ RemoteJob(j)
    BY <1>2
  <2> DEFINE r == remote.jobs[j]
  <2>2. r \in Row /\ Present(r)
    BY <2>1 DEF StoreType, Stands, Present
  <2>3. \/ \E x \in Life(r) \cup Stopped(r) : remote' = SetJob(remote, j, x)
        \/ \E x \in Retried(r) \cup Repaired(r) : remote' = SetJob(remote, j, x)
        \/ remote' = Deleted(remote, j)
    BY <2>1 DEF RemoteJob
  <2> HIDE DEF r
  <2>4. CASE \E x \in Life(r) \cup Stopped(r) : remote' = SetJob(remote, j, x)
    <3>1. PICK x \in Life(r) \cup Stopped(r) : remote' = SetJob(remote, j, x)
      BY <2>4
    <3>2. Follows(x, r)
      BY <2>2, LifeFollows, StoppedFollows
    <3> QED
      BY <2>2, <3>1, <3>2, SetRemembers DEF r
  <2>5. CASE \E x \in Retried(r) \cup Repaired(r) : remote' = SetJob(remote, j, x)
    <3>1. PICK x \in Retried(r) \cup Repaired(r) : remote' = SetJob(remote, j, x)
      BY <2>5
    <3>2. Follows(x, r)
      BY <2>2, RetriedFollows
    <3> QED
      BY <2>2, <3>1, <3>2, SetRemembers DEF r
  <2>6. CASE remote' = Deleted(remote, j)
    BY <2>6, DeletedRemembers
  <2> QED
    BY <2>3, <2>4, <2>5, <2>6
<1> QED
  BY <1>1, <1>2 DEF RemoteSteps

\* A call that took effect leaves a job there that the request has.
LEMMA HandledRemembers ==
  ASSUME StoreType(remote), Keyed(remote), CourierInv, courier.phase \in Calls, NEW a \in Handled
  PROVE  a.job \in Job /\ Remembers(remote, a.store) /\ Knows(a.store, courier.job, a.job)
<1>1. /\ courier.job \in Job /\ courier.row \in Row /\ courier.at \in {0} \cup Job
      /\ Knows(remote, courier.job, courier.at)
  BY DEF CourierInv, CourierType, Calls
<1>2. ASSUME NEW k \in There, NEW x, Follows(x, remote.jobs[k]), a = Answer(SetJob(remote, k, x), k)
      PROVE  a.job \in Job /\ Remembers(remote, a.store) /\ Knows(a.store, courier.job, a.job)
  <2>1. k \in Job /\ k = courier.at /\ Present(remote.jobs[k])
    BY DEF There, Stands, Present
  <2>2. Remembers(remote, SetJob(remote, k, x))
    BY <1>2, <2>1, SetRemembers
  <2>3. Knows(SetJob(remote, k, x), courier.job, k)
    BY <1>1, <2>1, <2>2, KnowsStill
  <2> QED
    BY <1>2, <2>1, <2>2, <2>3 DEF Answer
<1>3. ASSUME NEW k \in There PROVE remote.jobs[k] \in Row /\ Present(remote.jobs[k])
  BY DEF There, Stands, Present, StoreType
<1>4. CASE courier.phase = "find" /\ courier.at = 0
  <2> DEFINE automatic == FALSE
             none == {}
  <2>1. a \in Answers(remote, Wanted, FALSE, courier.job, {})
    BY <1>4 DEF Handled, Found
  <2>2. Wanted \in Request /\ courier.job \in {0} \cup Job /\ courier.job # 0
    BY <1>1, ZeroIsNoJob DEF Wanted, Row, Request
  <2>3. /\ a.job \in Job /\ Remembers(remote, a.store) /\ Present(a.store.jobs[a.job])
        /\ <<courier.job, a.job>> \in a.store.requests
    BY <2>1, <2>2, AnswerRemembers
  <2> QED
    BY <2>3 DEF Knows, Present
<1>5. CASE courier.phase = "find" /\ courier.at # 0
  <2>1. PICK k \in There : a = Answer(remote, k)
    BY <1>5 DEF Handled, Found
  <2>2. k \in Job /\ k = courier.at
    BY DEF There
  <2> QED
    BY <1>1, <2>1, <2>2, SameRemembers DEF Answer
<1>6. CASE courier.phase = "stop"
  <2>1. PICK k \in There : \E x \in Stopped(remote.jobs[k]) : a = Answer(SetJob(remote, k, x), k)
    BY <1>6 DEF Handled, StopHandled
  <2>3. PICK x \in Stopped(remote.jobs[k]) : a = Answer(SetJob(remote, k, x), k)
    BY <2>1
  <2>2. Follows(x, remote.jobs[k])
    BY <1>3, StoppedFollows
  <2> QED
    BY <1>2, <2>2, <2>3
<1>7. CASE courier.phase \in {"plan", "deadline"}
  <2>1. PICK k \in There : a = Answer(SetJob(remote, k, [remote.jobs[k] EXCEPT !.until = courier.row.until]), k)
    BY <1>7 DEF Handled, DeadlineHandled
  <2>2. courier.row.until \in Until
    BY <1>1 DEF Row
  <2>3. Follows([remote.jobs[k] EXCEPT !.until = courier.row.until], remote.jobs[k])
    BY <1>3, <2>2 DEF Follows, Present, Row
  <2> QED
    BY <1>2, <2>1, <2>3
<1> QED
  BY <1>4, <1>5, <1>6, <1>7 DEF Calls

\* The store there, its delivery here and the courier, one at a time.
LEMMA DeliveriesStill ==
  ASSUME ReplicaInv, Remembers(remote, remote'),
         replica' = [j \in Job |-> replica'[j]],
         \A j \in Job : /\ DeliveryType(replica'[j])
                        /\ replica'[j].remote \in {replica[j].remote, 0} \/ Knows(remote, j, replica'[j].remote)
  PROVE  ReplicaInv'
<1>1. ASSUME NEW j \in Job PROVE Knows(remote', j, replica'[j].remote)
  <2>1. Knows(remote, j, replica[j].remote) /\ Knows(remote, j, 0)
    BY ZeroIsNoJob DEF ReplicaInv, Knows
  <2>2. Knows(remote, j, replica'[j].remote)
    BY <2>1
  <2> QED
    BY <2>2, KnowsStill
<1> QED
  BY <1>1 DEF ReplicaInv

LEMMA CourierStill ==
  ASSUME CourierInv, Remembers(remote, remote'), UNCHANGED courier
  PROVE  CourierInv'
BY KnowsStill DEF CourierInv, CourierType

LEMMA EnqueueStep ==
  ASSUME ReplicaInv, NEW j, Enqueue(j)
  PROVE  /\ replica' = [k \in Job |-> replica'[k]]
         /\ \A k \in Job : DeliveryType(replica'[k]) /\ replica'[k].remote = replica[k].remote
<1>1. CASE UNCHANGED replica
  BY <1>1 DEF ReplicaInv
<1>2. CASE replica' = [replica EXCEPT ![j].state = "pending"]
  BY <1>2 DEF ReplicaInv, DeliveryType
<1> QED
  BY <1>1, <1>2 DEF Enqueue

LEMMA WritesStep ==
  ASSUME ReplicaInv, CourierInv, courier.phase # "idle", UNCHANGED remote, StoreType(remote), Keyed(remote),
         NEW d, DeliveryType(d), Knows(remote, courier.job, d.remote), Writes(d)
  PROVE  ReplicaInv' /\ CourierInv'
<1>1. CourierInv'
  BY DEF Writes, CourierInv, CourierType, Resting
<1>2. Remembers(remote, remote')
  BY SameRemembers
<1>3. courier.job \in Job
  BY DEF CourierInv
<1>4. replica' = replica \/ replica' = [replica EXCEPT ![courier.job] = d]
  BY DEF Writes
<1>5. replica' = [j \in Job |-> replica'[j]]
  BY <1>4 DEF ReplicaInv
<1>6. ASSUME NEW j \in Job
      PROVE  /\ DeliveryType(replica'[j])
             /\ replica'[j].remote \in {replica[j].remote, 0} \/ Knows(remote, j, replica'[j].remote)
  BY <1>3, <1>4 DEF ReplicaInv
<1> QED
  BY <1>1, <1>2, <1>5, <1>6, DeliveriesStill

LEMMA FailsStep ==
  ASSUME CourierInv, courier.phase # "idle", Remembers(remote, remote'), Fails
  PROVE  CourierInv'
<1>1. courier' = [courier EXCEPT !.phase = "save", !.ok = FALSE, !.seen = <<>>, !.at = 0]
  BY DEF Fails
<1>2. /\ CourierType' /\ courier'.job = courier.job /\ courier'.row = courier.row
      /\ courier'.copy = courier.copy /\ courier'.at = 0
  BY <1>1 DEF CourierInv, CourierType
<1>3. Knows(remote', courier.job, 0)
  BY ZeroIsNoJob DEF Knows
<1>4. Knows(remote', courier.job, courier.copy.remote)
  BY KnowsStill DEF CourierInv
<1> QED
  BY <1>2, <1>3, <1>4 DEF CourierInv

LEMMA CallStep ==
  ASSUME RemoteInv, Call
  PROVE  RemoteInv'
<1>1. PICK a \in Handled :
        /\ remote' = a.store
        /\ \/ courier' = [courier EXCEPT !.at = a.job, !.seen = a.store.jobs[a.job], !.ok = TRUE,
                                         !.phase = After(a.store.jobs[a.job])]
           \/ Fails
  BY DEF Call
<1>2. courier.phase \in Calls /\ courier.phase # "idle" /\ UNCHANGED replica
  BY DEF Call, Calls
<1>3. a.job \in Job /\ Remembers(remote, a.store) /\ Knows(a.store, courier.job, a.job)
  BY <1>2, HandledRemembers DEF RemoteInv
<1>4. Remembers(remote, remote')
  BY <1>1, <1>3
<1>5. ReplicaInv'
  BY <1>2, <1>4, DeliveriesStill DEF RemoteInv, ReplicaInv
<1>6. CourierInv'
  <2>1. CASE Fails
    BY <1>2, <1>4, <2>1, FailsStep DEF RemoteInv
  <2>2. CASE ~Fails
    <3> DEFINE seen == a.store.jobs[a.job]
    <3>1. courier' = [courier EXCEPT !.at = a.job, !.seen = seen, !.ok = TRUE, !.phase = After(seen)]
      BY <1>1, <2>2
    <3> HIDE DEF seen
    <3>2. /\ CourierType' /\ courier'.job = courier.job /\ courier'.row = courier.row
          /\ courier'.copy = courier.copy /\ courier'.at = a.job
      BY <1>3, <3>1 DEF RemoteInv, CourierInv, CourierType
    <3>3. Knows(remote', courier.job, a.job)
      BY <1>1, <1>3
    <3>4. Knows(remote', courier.job, courier.copy.remote)
      BY <1>2, <1>4, KnowsStill DEF RemoteInv, CourierInv
    <3> QED
      BY <1>2, <3>2, <3>3, <3>4 DEF RemoteInv, CourierInv
  <2> QED
    BY <2>1, <2>2
<1> QED
  BY <1>4, <1>5, <1>6 DEF RemoteInv, Remembers

LEMMA SaveStep ==
  ASSUME RemoteInv, Save
  PROVE  RemoteInv'
<1>1. UNCHANGED remote /\ courier.phase # "idle"
  BY DEF Save, Writes
<1>2. PICK d : Writes(d) /\ d.remote \in {courier.at, courier.copy.remote} /\ DeliveryType(d)
  <2>1. CASE courier.ok
    <3> DEFINE d == [state |-> Followed, remote |-> courier.at, tries |-> 0]
    <3>1. Writes(d)
      BY <2>1 DEF Save
    <3>2. d.remote = courier.at /\ DeliveryType(d)
      BY DEF RemoteInv, CourierInv, CourierType, DeliveryType
    <3> QED
      BY <3>1, <3>2
  <2>2. CASE ~courier.ok
    <3> DEFINE tries == courier.copy.tries + 1
               ended == IF tries >= MaxTries THEN "failed" ELSE "retrying"
               d == [courier.copy EXCEPT !.tries = tries, !.state = ended]
    <3>1. Writes(d)
      BY <2>2 DEF Save
    <3>2. DeliveryType(courier.copy)
      BY <1>1 DEF RemoteInv, CourierInv
    <3> HIDE DEF tries, ended
    <3>3. d.remote = courier.copy.remote /\ DeliveryType(d)
      BY <3>2 DEF DeliveryType
    <3> QED
      BY <3>1, <3>3
  <2> QED
    BY <2>1, <2>2
<1>3. Knows(remote, courier.job, d.remote)
  BY <1>1, <1>2 DEF RemoteInv, CourierInv
<1> QED
  BY <1>1, <1>2, <1>3, WritesStep DEF RemoteInv

LEMMA RemoteStep == OccurrenceInv /\ RemoteInv /\ [Next]_vars => RemoteInv'
<1> SUFFICES ASSUME OccurrenceInv, RemoteInv, [Next]_vars PROVE RemoteInv'
  OBVIOUS
<1>1. CASE UNCHANGED <<replica, remote, courier>>
  BY <1>1 DEF RemoteInv, ReplicaInv, CourierInv, CourierType
<1>2. ASSUME UNCHANGED <<remote, courier>>, replica' = [j \in Job |-> replica'[j]],
             \A j \in Job : DeliveryType(replica'[j]) /\ replica'[j].remote \in {replica[j].remote, 0}
      PROVE  RemoteInv'
  <2>1. Remembers(remote, remote')
    BY <1>2, SameRemembers DEF RemoteInv
  <2>2. ReplicaInv'
    BY <1>2, <2>1, DeliveriesStill DEF RemoteInv
  <2>3. CourierInv'
    BY <1>2, <2>1, CourierStill DEF RemoteInv
  <2> QED
    BY <2>1, <2>2, <2>3 DEF RemoteInv, Remembers
<1>3. ASSUME NEW j, Enqueue(j), UNCHANGED <<remote, courier>> PROVE RemoteInv'
  BY <1>2, <1>3, EnqueueStep DEF RemoteInv
<1>4. CASE LocalSteps
  <2>1. replica' = [j \in Job |-> IF store'.jobs[j].state = "deleted" THEN NoDelivery ELSE replica[j]]
        /\ UNCHANGED <<remote, courier>>
    BY <1>4 DEF LocalSteps
  <2>2. DeliveryType(NoDelivery) /\ NoDelivery.remote = 0
    BY DEF DeliveryType, NoDelivery
  <2>3. \A j \in Job : DeliveryType(replica'[j]) /\ replica'[j].remote \in {replica[j].remote, 0}
    BY <2>1, <2>2 DEF RemoteInv, ReplicaInv
  <2>4. replica' = [j \in Job |-> replica'[j]]
    BY <2>1
  <2> QED
    BY <1>2, <2>1, <2>3, <2>4
<1>5. CASE RemoteSteps
  <2>1. Remembers(remote, remote')
    BY <1>5, RemoteStepsRemember DEF RemoteInv
  <2>2. UNCHANGED <<replica, courier>>
    BY <1>5 DEF RemoteSteps
  <2>3. ReplicaInv'
    BY <2>1, <2>2, DeliveriesStill DEF RemoteInv, ReplicaInv
  <2>4. CourierInv'
    BY <2>1, <2>2, CourierStill DEF RemoteInv
  <2> QED
    BY <2>1, <2>3, <2>4 DEF RemoteInv, Remembers
<1>6. ASSUME NEW j \in Job, Fanout(j) PROVE RemoteInv'
  BY <1>3, <1>6 DEF Fanout
<1>7. ASSUME NEW j \in Job, Take(j) PROVE RemoteInv'
  <2>1. UNCHANGED <<remote, replica>>
    BY <1>7 DEF Take
  <2> DEFINE phase == IF store.jobs[j].stop /\ replica[j].remote = 0 THEN "cancel" ELSE "find"
  <2>2. courier' = [phase |-> phase, job |-> j, copy |-> replica[j], row |-> store.jobs[j],
                    at |-> replica[j].remote, seen |-> <<>>, ok |-> FALSE]
    BY <1>7 DEF Take
  <2> HIDE DEF phase
  <2>3. /\ courier'.job = j /\ courier'.row = store.jobs[j] /\ courier'.copy = replica[j]
        /\ courier'.at = replica[j].remote
    BY <2>2
  <2>4. /\ DeliveryType(replica[j]) /\ Knows(remote, j, replica[j].remote)
        /\ store.jobs[j] \in Row
    BY DEF RemoteInv, ReplicaInv, OccurrenceInv, StoreType
  <2>5. replica[j].remote \in {0} \cup Job
    BY <2>4 DEF DeliveryType
  <2>6. CourierType'
    BY <2>2, <2>5 DEF CourierType
  <2>7. CourierInv'
    BY <2>1, <2>3, <2>4, <2>6 DEF CourierInv
  <2> QED
    BY <2>1, <2>7 DEF RemoteInv, ReplicaInv
<1>8. CASE CancelUndelivered
  <2>1. UNCHANGED remote /\ courier.phase # "idle"
    BY <1>8 DEF CancelUndelivered, Writes
  <2> DEFINE d == [courier.copy EXCEPT !.state = "cancelled"]
  <2>2. DeliveryType(courier.copy) /\ Knows(remote, courier.job, courier.copy.remote)
    BY <2>1 DEF RemoteInv, CourierInv
  <2>3. Writes(d) /\ DeliveryType(d) /\ d.remote = courier.copy.remote
    BY <1>8, <2>2 DEF CancelUndelivered, DeliveryType
  <2> HIDE DEF d
  <2> QED
    BY <2>1, <2>2, <2>3, WritesStep DEF RemoteInv
<1>9. CASE CallFails
  <2>1. UNCHANGED <<remote, replica>> /\ courier.phase # "idle" /\ Fails
    BY <1>9 DEF CallFails, Calls
  <2>2. Remembers(remote, remote')
    BY <2>1, SameRemembers DEF RemoteInv
  <2>3. CourierInv'
    BY <2>1, <2>2, FailsStep DEF RemoteInv
  <2> QED
    BY <2>1, <2>3 DEF RemoteInv, ReplicaInv
<1>10. CASE Replicas
  <2>1. \/ RemoteSteps \/ CancelUndelivered \/ Call \/ CallFails \/ Save
        \/ \E j \in Job : Fanout(j) \/ Take(j)
    BY <1>10 DEF Replicas, Courier
  <2> QED
    BY <1>5, <1>6, <1>7, <1>8, <1>9, <2>1, CallStep, SaveStep
<1>11. CASE Channels
  <2>1. UNCHANGED <<remote, courier>> /\ (UNCHANGED replica \/ Enqueue(scan.job))
    BY <1>11 DEF Channels, ChannelSteps, Scan, BeginScan, List, TakeUrl, Inspect, InspectFails, ReadLedger,
                AddWindowJob, FanoutScanned, CompleteScan, ReadForEdit, WriteEdit, DeleteChannel,
                AddChannel, SiteChanges, Tick, Quietly, Aside, others
  <2> QED
    BY <1>1, <1>3, <2>1
<1>12. CASE Crash
  <2>1. UNCHANGED <<replica, remote>> /\ courier' = Resting
    BY <1>12 DEF Crash
  <2>2. CourierInv'
    BY <2>1 DEF CourierInv, CourierType, Resting
  <2> QED
    BY <2>1, <2>2 DEF RemoteInv, ReplicaInv
<1>13. CASE Jobs
  <2>1. LocalSteps \/ UNCHANGED <<replica, remote, courier>>
    BY <1>13 DEF Jobs, Record
  <2> QED
    BY <1>1, <1>4, <2>1
<1>14. CASE Notifications \/ Alerts \/ Start \/ UNCHANGED vars
  <2>1. UNCHANGED <<replica, remote, courier>>
    BY <1>14 DEF Notifications, Alerts, Watch, Look, Reconcile, Tell, Start, vars, replicaVars
  <2> QED
    BY <1>1, <2>1
<1> QED
  BY <1>10, <1>11, <1>12, <1>13, <1>14 DEF Next

LEMMA RemoteInit == Init => RemoteInv
<1> SUFFICES ASSUME Init PROVE RemoteInv
  OBVIOUS
<1>1. remote = EmptyStore /\ replica = [j \in Job |-> NoDelivery] /\ courier = Resting
  BY DEF Init, ReplicaInit
<1>2. StoreType(remote) /\ remote.requests = {}
  BY <1>1, OneRequest, EmptyType DEF EmptyStore
<1>3. \A j \in Job : ~Present(remote.jobs[j])
  <2> DEFINE q == CHOOSE r \in Request : TRUE
  <2>1. \A j \in Job : remote.jobs[j] = NewJob("absent", q, 0)
    BY <1>1 DEF EmptyStore
  <2>2. NewJob("absent", q, 0).state = "absent"
    BY DEF NewJob
  <2> HIDE DEF q
  <2> QED
    BY <2>1, <2>2 DEF Present
<1>4. Keyed(remote)
  BY <1>2, <1>3 DEF Keyed
<1>5. CourierInv
  BY <1>1 DEF CourierInv, CourierType, Resting
<1>6. ReplicaInv
  BY <1>1, ZeroIsNoJob DEF ReplicaInv, NoDelivery, DeliveryType, Knows
<1> QED
  BY <1>2, <1>4, <1>5, <1>6 DEF RemoteInv

\* However often a request is sent again after a lost answer, the other service
\* has one job for it, and the job that is followed here is the one the request
\* was answered with (deliver in replica.rs, add_job_keyed).
THEOREM ReplicaIsOneJob == Spec => []OneRemoteJob
<1>1. RemoteInv => OneRemoteJob
  <2> SUFFICES ASSUME RemoteInv PROVE OneRemoteJob
    OBVIOUS
  <2>1. \A a \in Job : Stands(remote, a) <=> Present(remote.jobs[a])
    BY DEF Stands, Present
  <2>2. ASSUME NEW j \in Job, NEW a \in Job, Stands(remote, a), remote.jobs[a].key = j
        PROVE  <<j, a>> \in remote.requests
    BY <2>1, <2>2, ZeroIsNoJob DEF RemoteInv, Keyed
  <2>3. ASSUME NEW j \in Job, NEW a \in Job, NEW b \in Job, <<j, a>> \in remote.requests, <<j, b>> \in remote.requests
        PROVE  a = b
    <3>1. <<j, a>>[1] = <<j, b>>[1] => <<j, a>>[2] = <<j, b>>[2]
      BY <2>3 DEF RemoteInv, Keyed
    <3> QED
      BY <3>1
  <2>4. \A j, a \in Job : replica[j].remote = a /\ Stands(remote, a) => <<j, a>> \in remote.requests
    BY <2>1 DEF RemoteInv, ReplicaInv, Knows
  <2> QED
    BY <2>2, <2>3, <2>4 DEF OneRemoteJob
<1>2. OccurrenceInv /\ RemoteInv /\ [Next]_vars => (OccurrenceInv /\ RemoteInv)'
  BY OccurrenceStep, RemoteStep
<1>3. Init => OccurrenceInv /\ RemoteInv
  BY OccurrenceInit, RemoteInit
<1> QED
  BY <1>1, <1>2, <1>3, PTL DEF Spec


----------------------------------------------------------------------------
\* The outbox.

LEMMA MinIsOne ==
  ASSUME NEW S \in SUBSET Nat, S # {}
  PROVE  Min(S) \in S /\ \A y \in S : Min(S) =< y
<1> DEFINE R == OpToRel(<, Nat)
<1>1. \A x, y \in Nat : y < x => <<y, x>> \in R
  BY DEF OpToRel
<1>2. IsWellFoundedOn(R, Nat)
  BY NatLessThanWellFounded
<1> HIDE DEF R
<1>3. PICK x \in S : \A y \in S : ~(<<y, x>> \in R)
  BY <1>2, WFMin
<1>4. ASSUME NEW y \in S, ~(x =< y) PROVE FALSE
  <2>1. x \in Nat /\ y \in Nat /\ y < x
    BY <1>4
  <2>2. <<y, x>> \in R
    BY <1>1, <2>1
  <2> QED
    BY <1>3, <2>2
<1> QED
  BY <1>3, <1>4 DEF Min

LEMMA FunctionIsSeq ==
  ASSUME NEW S, NEW n \in Nat, NEW f \in [1..n -> S]
  PROVE  f \in Seq(S) /\ Len(f) = n
<1>1. f \in Seq(S)
  OBVIOUS
<1>2. Len(f) \in Nat /\ DOMAIN f = 1..Len(f) /\ DOMAIN f = 1..n
  BY <1>1, LenProperties
<1>3. CASE Len(f) < n
  <2>1. n \in 1..n /\ n \notin 1..Len(f)
    BY <1>2, <1>3
  <2> QED
    BY <1>2, <2>1
<1>4. CASE n < Len(f)
  <2>1. Len(f) \in 1..Len(f) /\ Len(f) \notin 1..n
    BY <1>2, <1>4
  <2> QED
    BY <1>2, <2>1
<1> QED
  BY <1>1, <1>2, <1>3, <1>4

LEMMA SetToSeqIsSeq ==
  ASSUME NEW S, IsFiniteSet(S)
  PROVE  SetToSeq(S) \in Seq(S)
<1>1. Cardinality(S) \in Nat /\ ExistsBijection(1..Cardinality(S), S)
  BY FS_CardinalityType
<1>2. \E f \in [1..Cardinality(S) -> S] : IsInjective(f)
  BY <1>1 DEF ExistsBijection, Bijection, Injection
<1>3. SetToSeq(S) \in [1..Cardinality(S) -> S]
  BY <1>2 DEF SetToSeq
<1> QED
  BY <1>1, <1>3

MessageOf(A) ==
  [to : Target, about : A, state : {"due", "later", "delivered", "removed"}, sent : BOOLEAN]
\* A message that counts as delivered has been sent.
Honest(m) == m.state \in {"delivered", "removed"} => m.sent
HonestBox(b) == \E A : b \in Seq(MessageOf(A)) /\ \A n \in 1..Len(b) : Honest(b[n])
SenderType ==
  sender \in [phase : {sender.phase}, targets : {sender.targets}, batch : SUBSET (1..Len(outbox)),
              ok : {sender.ok}]
OutboxInv ==
  /\ HonestBox(outbox) /\ SenderType
  /\ targets \subseteq Target /\ IsFiniteSet(targets)
  /\ sender.phase # "idle" => sender.batch # {}
  /\ sender.phase = "answered" /\ sender.ok => outbox[Current].sent

\* New messages are due; those before them stay.
LEMMA PostedIsHonest ==
  ASSUME HonestBox(outbox), targets \subseteq Target, IsFiniteSet(targets), NEW about
  PROVE  /\ HonestBox(Posted(about)) /\ Len(Posted(about)) >= Len(outbox)
         /\ \A n \in 1..Len(outbox) : Posted(about)[n] = outbox[n]
<1>1. PICK A : outbox \in Seq(MessageOf(A)) /\ \A n \in 1..Len(outbox) : Honest(outbox[n])
  BY DEF HonestBox
<1> DEFINE S == {Message(t, about) : t \in targets}
           f == [t \in targets |-> Message(t, about)]
           B == A \cup {about}
           new == SetToSeq(S)
<1>2. IsFiniteSet(S)
  <2>1. f \in Surjection(targets, S)
    BY DEF Surjection
  <2> QED
    BY <2>1, FS_Surjection
<1>3. \A m \in S : m \in MessageOf(B) /\ Honest(m)
  <2> SUFFICES ASSUME NEW t \in targets
               PROVE  Message(t, about) \in MessageOf(B) /\ Honest(Message(t, about))
    OBVIOUS
  <2>1. about \in B /\ t \in Target
    OBVIOUS
  <2> HIDE DEF B
  <2>2. Message(t, about) = [to |-> t, about |-> about, state |-> "due", sent |-> FALSE]
    BY DEF Message
  <2>3. Message(t, about) \in MessageOf(B)
    BY <2>1, <2>2 DEF MessageOf
  <2> QED
    BY <2>2, <2>3 DEF Honest
<1> HIDE DEF S, f
<1>4. new \in Seq(S)
  BY <1>2, SetToSeqIsSeq
<1>5. \A n \in 1..Len(new) : new[n] \in S
  BY <1>4
<1>6. new \in Seq(MessageOf(B))
  BY <1>3, <1>4, SeqMonotonic
<1>7. outbox \in Seq(MessageOf(B))
  <2>1. MessageOf(A) \subseteq MessageOf(B)
    BY DEF MessageOf
  <2> QED
    BY <1>1, <2>1, SeqMonotonic
<1>8. Posted(about) = outbox \o new
  BY DEF Posted, S
<1> HIDE DEF B, new
<1>9. /\ outbox \o new \in Seq(MessageOf(B)) /\ Len(outbox \o new) = Len(outbox) + Len(new)
      /\ \A n \in 1..(Len(outbox) + Len(new)) :
           (outbox \o new)[n] = IF n <= Len(outbox) THEN outbox[n] ELSE new[n - Len(outbox)]
  BY <1>6, <1>7, ConcatProperties
<1>10. Len(outbox) \in Nat /\ Len(new) \in Nat
  BY <1>6, <1>7
<1>11. ASSUME NEW n \in 1..(Len(outbox) + Len(new)) PROVE Honest((outbox \o new)[n])
  <2>1. CASE n <= Len(outbox)
    BY <1>1, <1>9, <1>10, <2>1
  <2>2. CASE n > Len(outbox)
    <3>1. n - Len(outbox) \in 1..Len(new)
      BY <1>10, <2>2
    <3> QED
      BY <1>3, <1>5, <1>9, <1>10, <2>2, <3>1
  <2> QED
    BY <1>10, <2>1, <2>2
<1>12. HonestBox(Posted(about))
  BY <1>8, <1>9, <1>11 DEF HonestBox
<1> QED
  BY <1>8, <1>9, <1>10, <1>12

\* A table of the same length, message by message.
LEMMA ChangedIsHonest ==
  ASSUME HonestBox(outbox), NEW box, box = [n \in 1..Len(outbox) |-> box[n]],
         \A n \in 1..Len(outbox) :
           /\ box[n] = [outbox[n] EXCEPT !.state = box[n].state, !.sent = box[n].sent]
           /\ box[n].state \in {"due", "later", "delivered", "removed"} /\ box[n].sent \in BOOLEAN
           /\ Honest(box[n])
  PROVE  HonestBox(box) /\ Len(box) = Len(outbox)
<1>1. PICK A : outbox \in Seq(MessageOf(A))
  BY DEF HonestBox
<1> DEFINE size == Len(outbox)
<1>2. size \in Nat /\ \A n \in 1..size : outbox[n] \in MessageOf(A)
  BY <1>1, LenProperties, ElementOfSeq
<1>3. \A n \in 1..Len(outbox) : box[n] \in MessageOf(A)
  BY <1>2 DEF MessageOf
<1>4. box \in [1..size -> MessageOf(A)]
  BY <1>3
<1> HIDE DEF size
<1>5. size \in Nat
  BY <1>2
<1>6. box \in Seq(MessageOf(A)) /\ Len(box) = size
  BY <1>4, <1>5, FunctionIsSeq
<1>7. \A n \in 1..Len(box) : Honest(box[n])
  BY <1>6 DEF size
<1> QED
  BY <1>6, <1>7 DEF HonestBox, size


LEMMA CurrentIsThere ==
  ASSUME OutboxInv, sender.phase # "idle"
  PROVE  Current \in sender.batch /\ Current \in 1..Len(outbox)
<1>1. sender.batch \in SUBSET (1..Len(outbox)) /\ sender.batch # {}
  BY DEF OutboxInv, SenderType
<1>2. sender.batch \in SUBSET Nat
  BY <1>1
<1>3. Min(sender.batch) \in sender.batch
  BY <1>1, <1>2, MinIsOne
<1> QED
  BY <1>1, <1>3 DEF Current

\* What a round holds is still right when the table only grows and no message
\* becomes unsent.
LEMMA RoundStands ==
  ASSUME OutboxInv, HonestBox(outbox'), UNCHANGED <<targets, sender>>, Len(outbox') >= Len(outbox),
         \A n \in 1..Len(outbox) : outbox[n].sent => outbox'[n].sent
  PROVE  OutboxInv'
<1>1. sender'.batch \in SUBSET (1..Len(outbox'))
  <2>1. sender.batch \in SUBSET (1..Len(outbox)) /\ Len(outbox) \in Nat /\ Len(outbox') \in Nat
    BY LenProperties DEF OutboxInv, SenderType, HonestBox
  <2> QED
    BY <2>1
<1>2. SenderType'
  BY <1>1 DEF OutboxInv, SenderType
<1>3. sender.phase = "answered" /\ sender.ok => outbox'[Current].sent
  BY CurrentIsThere DEF OutboxInv
<1>4. Current' = Current
  BY DEF Current
<1> QED
  BY <1>2, <1>3, <1>4 DEF OutboxInv

\* A step that changes messages in their place.
LEMMA TableChanges ==
  ASSUME OutboxInv, outbox' = [n \in 1..Len(outbox) |-> outbox'[n]],
         \A n \in 1..Len(outbox) :
           /\ outbox'[n] = [outbox[n] EXCEPT !.state = outbox'[n].state, !.sent = outbox'[n].sent]
           /\ outbox'[n].state \in {"due", "later", "delivered", "removed"} /\ outbox'[n].sent \in BOOLEAN
           /\ Honest(outbox'[n])
  PROVE  HonestBox(outbox') /\ Len(outbox') = Len(outbox)
BY ChangedIsHonest DEF OutboxInv

LEMMA MessageFacts ==
  ASSUME OutboxInv
  PROVE  /\ Len(outbox) \in Nat /\ outbox = [n \in 1..Len(outbox) |-> outbox[n]]
         /\ \A n \in 1..Len(outbox) :
              /\ outbox[n] \in [to : Target, about : {outbox[n].about},
                                state : {"due", "later", "delivered", "removed"}, sent : BOOLEAN]
              /\ Honest(outbox[n])
<1>1. PICK A : outbox \in Seq(MessageOf(A)) /\ \A n \in 1..Len(outbox) : Honest(outbox[n])
  BY DEF OutboxInv, HonestBox
<1>2. Len(outbox) \in Nat /\ outbox = [n \in 1..Len(outbox) |-> outbox[n]]
  BY <1>1, LenProperties
<1>3. ASSUME NEW n \in 1..Len(outbox)
      PROVE  outbox[n] \in [to : Target, about : {outbox[n].about},
                            state : {"due", "later", "delivered", "removed"}, sent : BOOLEAN]
  <2>1. outbox[n] \in MessageOf(A)
    BY <1>1, ElementOfSeq
  <2> QED
    BY <2>1 DEF MessageOf
<1> QED
  BY <1>1, <1>2, <1>3

\* One message changes, the round goes on.
LEMMA OneChanges ==
  ASSUME OutboxInv, NEW c \in 1..Len(outbox), NEW m, outbox' = [outbox EXCEPT ![c] = m],
         m \in [to : Target, about : {outbox[c].about},
                state : {"due", "later", "delivered", "removed"}, sent : BOOLEAN],
         m.to = outbox[c].to, Honest(m), outbox[c].sent => m.sent
  PROVE  /\ HonestBox(outbox') /\ Len(outbox') = Len(outbox)
         /\ \A n \in 1..Len(outbox) : outbox[n].sent => outbox'[n].sent
<1>1. /\ Len(outbox) \in Nat /\ outbox = [n \in 1..Len(outbox) |-> outbox[n]]
      /\ \A n \in 1..Len(outbox) :
           /\ outbox[n] \in [to : Target, about : {outbox[n].about},
                             state : {"due", "later", "delivered", "removed"}, sent : BOOLEAN]
           /\ Honest(outbox[n])
  BY MessageFacts
<1>2. outbox'[c] = m /\ \A n \in (1..Len(outbox)) \ {c} : outbox'[n] = outbox[n]
  BY <1>1
<1>3. outbox' = [n \in 1..Len(outbox) |-> outbox'[n]]
  BY <1>1
<1>4. m = [outbox[c] EXCEPT !.state = m.state, !.sent = m.sent]
  BY <1>1
<1>5. ASSUME NEW n \in 1..Len(outbox)
      PROVE  /\ outbox'[n] = [outbox[n] EXCEPT !.state = outbox'[n].state, !.sent = outbox'[n].sent]
             /\ outbox'[n].state \in {"due", "later", "delivered", "removed"} /\ outbox'[n].sent \in BOOLEAN
             /\ Honest(outbox'[n])
  <2>1. CASE n = c
    BY <1>2, <1>4, <2>1
  <2>2. CASE n # c
    BY <1>1, <1>2, <2>2
  <2> QED
    BY <2>1, <2>2
<1>6. HonestBox(outbox') /\ Len(outbox') = Len(outbox)
  BY <1>3, <1>5, TableChanges
<1> QED
  BY <1>2, <1>6


LEMMA ReadDueStep ==
  ASSUME OutboxInv, ReadDue
  PROVE  OutboxInv'
<1> DEFINE batch == {n \in Due : Cardinality({m \in Due : m <= n}) <= Limit}
<1>1. /\ sender' = [phase |-> "sending", targets |-> targets, ok |-> FALSE, batch |-> batch]
      /\ Due # {} /\ UNCHANGED <<targets, outbox>>
  BY DEF ReadDue
<1>2. Due \in SUBSET (1..Len(outbox)) /\ Due \in SUBSET Nat
  BY DEF Due
<1> DEFINE first == Min(Due)
<1>3. first \in Due /\ \A m \in Due : first <= m
  BY <1>1, <1>2, MinIsOne
<1>4. first \in Nat
  BY <1>2, <1>3
<1>5. {m \in Due : m <= first} = {first}
  <2> HIDE DEF first
  <2>1. ASSUME NEW m \in Due, m <= first PROVE m = first
    <3>1. m \in Nat /\ first <= m
      BY <1>2, <1>3
    <3> QED
      BY <1>4, <2>1, <3>1
  <2> QED
    BY <1>3, <1>4, <2>1
<1>6. Cardinality({m \in Due : m <= first}) = 1
  BY <1>5, FS_Singleton
<1>7. first \in batch
  <2>1. 1 <= Limit
    BY OutboxAssumption
  <2> HIDE DEF first
  <2> QED
    BY <1>3, <1>6, <2>1
<1>8. batch \in SUBSET (1..Len(outbox))
  BY <1>2
<1> HIDE DEF batch, first
<1> QED
  BY <1>1, <1>7, <1>8 DEF OutboxInv, SenderType

LEMMA ArrivesStep ==
  ASSUME OutboxInv, Arrives
  PROVE  OutboxInv'
<1> DEFINE c == Current
           m == [outbox[c] EXCEPT !.sent = TRUE]
<1>1. PICK ok \in BOOLEAN :
        /\ sender' = [sender EXCEPT !.phase = "answered", !.ok = ok] /\ UNCHANGED targets
        /\ outbox' = [outbox EXCEPT ![c].sent = TRUE] /\ sender.phase = "sending"
  BY DEF Arrives, Answered
<1>2. c \in 1..Len(outbox)
  BY <1>1, CurrentIsThere
<1>3. outbox' = [outbox EXCEPT ![c] = m]
  BY <1>1
<1>4. outbox[c] \in [to : Target, about : {outbox[c].about},
                     state : {"due", "later", "delivered", "removed"}, sent : BOOLEAN]
  BY <1>2, MessageFacts
<1>5. /\ m \in [to : Target, about : {outbox[c].about},
                state : {"due", "later", "delivered", "removed"}, sent : BOOLEAN]
      /\ m.to = outbox[c].to /\ Honest(m) /\ m.sent
  BY <1>4 DEF Honest
<1> HIDE DEF m
<1>6. HonestBox(outbox') /\ Len(outbox') = Len(outbox)
  BY <1>2, <1>3, <1>5, OneChanges
<1>7. outbox'[c].sent
  BY <1>2, <1>3, <1>5, MessageFacts
<1>8. sender'.batch = sender.batch /\ SenderType'
  BY <1>1, <1>6 DEF OutboxInv, SenderType
<1>9. Current' = c
  BY <1>8 DEF Current
<1> HIDE DEF c
<1> QED
  BY <1>1, <1>6, <1>7, <1>8, <1>9 DEF OutboxInv

LEMMA NotSentStep ==
  ASSUME OutboxInv, NotSent
  PROVE  OutboxInv'
<1>1. /\ sender' = [sender EXCEPT !.phase = "answered", !.ok = FALSE] /\ sender.phase = "sending"
      /\ UNCHANGED <<targets, outbox>>
  BY DEF NotSent, Answered
<1>2. SenderType' /\ sender'.batch = sender.batch /\ ~sender'.ok
  BY <1>1 DEF OutboxInv, SenderType
<1> QED
  BY <1>1, <1>2 DEF OutboxInv

LEMMA FinishStep ==
  ASSUME OutboxInv, Finish
  PROVE  OutboxInv'
<1> DEFINE c == Current
           box == [outbox EXCEPT ![c] = Outcome(outbox[c])]
<1>1. /\ sender.phase = "answered" /\ outbox' = Trimmed(box) /\ UNCHANGED targets
      /\ sender' = IF sender.batch = {c} THEN Quiet
                   ELSE [sender EXCEPT !.phase = "sending", !.batch = @ \ {c}, !.ok = FALSE]
  BY DEF Finish
<1>2. c \in sender.batch /\ c \in 1..Len(outbox)
  BY <1>1, CurrentIsThere
<1>3. sender.ok => outbox[c].sent
  BY <1>1 DEF OutboxInv
<1>4. /\ Len(outbox) \in Nat /\ outbox = [n \in 1..Len(outbox) |-> outbox[n]]
      /\ \A n \in 1..Len(outbox) :
           /\ outbox[n] \in [to : Target, about : {outbox[n].about},
                             state : {"due", "later", "delivered", "removed"}, sent : BOOLEAN]
           /\ Honest(outbox[n])
  BY MessageFacts
<1> DEFINE m == Outcome(outbox[c])
<1>5. /\ m \in [to : Target, about : {outbox[c].about},
                state : {"due", "later", "delivered", "removed"}, sent : BOOLEAN]
      /\ Honest(m) /\ m.sent = outbox[c].sent
  <2> DEFINE o == outbox[c]
  <2>1. o \in [to : Target, about : {o.about},
               state : {"due", "later", "delivered", "removed"}, sent : BOOLEAN] /\ Honest(o)
    BY <1>2, <1>4
  <2>2. \/ m = o
        \/ m = [o EXCEPT !.state = "delivered"] /\ sender.ok
        \/ m = [o EXCEPT !.state = "later"]
    BY DEF Outcome
  <2>3. sender.ok => o.sent
    BY <1>3
  <2> HIDE DEF o, m
  <2>4. /\ m \in [to : Target, about : {o.about},
                  state : {"due", "later", "delivered", "removed"}, sent : BOOLEAN]
        /\ Honest(m) /\ m.sent = o.sent
    BY <2>1, <2>2, <2>3 DEF Honest
  <2> QED
    BY <2>4 DEF o
<1> HIDE DEF m
<1>6. /\ box = [n \in 1..Len(outbox) |-> box[n]] /\ box[c] = m
      /\ \A n \in (1..Len(outbox)) \ {c} : box[n] = outbox[n]
  BY <1>2, <1>4 DEF m
<1>7. \A n \in 1..Len(outbox) :
        /\ box[n] \in [to : Target, about : {outbox[n].about},
                       state : {"due", "later", "delivered", "removed"}, sent : BOOLEAN]
        /\ Honest(box[n]) /\ box[n].sent = outbox[n].sent
  BY <1>4, <1>5, <1>6
<1> HIDE DEF box
<1>8. Len(box) = Len(outbox)
  <2> DEFINE S == {box[n] : n \in 1..Len(outbox)}
  <2>1. box \in [1..Len(outbox) -> S]
    BY <1>6
  <2> HIDE DEF S
  <2> QED
    BY <1>4, <2>1, FunctionIsSeq
<1>9. outbox' = [n \in 1..Len(outbox) |->
                   IF box[n].state = "delivered" /\ n + Kept < Len(outbox) THEN [box[n] EXCEPT !.state = "removed"]
                   ELSE box[n]]
  BY <1>1, <1>8 DEF Trimmed
<1>10. outbox' = [n \in 1..Len(outbox) |-> outbox'[n]]
  BY <1>9
<1>11. ASSUME NEW n \in 1..Len(outbox)
       PROVE  /\ outbox'[n] \in [to : Target, about : {outbox[n].about},
                                 state : {"due", "later", "delivered", "removed"}, sent : BOOLEAN]
              /\ Honest(outbox'[n]) /\ outbox'[n].sent = outbox[n].sent
  <2>1. outbox'[n] = box[n] \/ (box[n].state = "delivered" /\ outbox'[n] = [box[n] EXCEPT !.state = "removed"])
    BY <1>9
  <2>2. CASE outbox'[n] = box[n]
    BY <1>7, <2>2
  <2>3. CASE box[n].state = "delivered" /\ outbox'[n] = [box[n] EXCEPT !.state = "removed"]
    BY <1>7, <2>3 DEF Honest
  <2> QED
    BY <2>1, <2>2, <2>3
<1>12. HonestBox(outbox') /\ Len(outbox') = Len(outbox)
  <2>1. PICK A : outbox \in Seq(MessageOf(A))
    BY DEF OutboxInv, HonestBox
  <2>2. \A n \in 1..Len(outbox) : outbox'[n] \in MessageOf(A)
    <3> SUFFICES ASSUME NEW n \in 1..Len(outbox) PROVE outbox'[n] \in MessageOf(A)
      OBVIOUS
    <3>1. outbox[n] \in MessageOf(A)
      BY <2>1, ElementOfSeq
    <3>2. outbox[n].about \in A
      BY <3>1 DEF MessageOf
    <3> QED
      BY <1>11, <3>2 DEF MessageOf
  <2>3. outbox' \in [1..Len(outbox) -> MessageOf(A)]
    BY <1>10, <2>2
  <2>4. outbox' \in Seq(MessageOf(A)) /\ Len(outbox') = Len(outbox)
    BY <1>4, <2>3, FunctionIsSeq
  <2> QED
    BY <1>11, <2>4 DEF HonestBox
<1> HIDE DEF c
<1>13. CASE sender.batch = {c}
  BY <1>1, <1>12, <1>13 DEF OutboxInv, SenderType, Quiet
<1>14. CASE sender.batch # {c}
  <2>1. sender' = [sender EXCEPT !.phase = "sending", !.batch = sender.batch \ {c}, !.ok = FALSE]
    BY <1>1, <1>14
  <2>2. sender.batch \ {c} # {}
    BY <1>2, <1>14
  <2> QED
    BY <1>1, <1>12, <2>1, <2>2 DEF OutboxInv, SenderType
<1> QED
  BY <1>13, <1>14

LEMMA DueAgainStep ==
  ASSUME OutboxInv, NEW some, DueAgain(some)
  PROVE  OutboxInv'
<1>1. /\ UNCHANGED <<targets, sender>>
      /\ outbox' = [n \in 1..Len(outbox) |-> IF n \in some THEN [outbox[n] EXCEPT !.state = "due"] ELSE outbox[n]]
  BY DEF DueAgain
<1>2. \A n \in 1..Len(outbox) :
        /\ outbox[n] \in [to : Target, about : {outbox[n].about},
                          state : {"due", "later", "delivered", "removed"}, sent : BOOLEAN]
        /\ Honest(outbox[n])
  BY MessageFacts
<1>3. outbox' = [n \in 1..Len(outbox) |-> outbox'[n]]
  BY <1>1
<1>4. ASSUME NEW n \in 1..Len(outbox)
      PROVE  /\ outbox'[n] = [outbox[n] EXCEPT !.state = outbox'[n].state, !.sent = outbox'[n].sent]
             /\ outbox'[n].state \in {"due", "later", "delivered", "removed"} /\ outbox'[n].sent \in BOOLEAN
             /\ Honest(outbox'[n]) /\ outbox'[n].sent = outbox[n].sent
  <2>1. CASE outbox'[n] = [outbox[n] EXCEPT !.state = "due"]
    BY <1>2, <2>1 DEF Honest
  <2>2. CASE outbox'[n] = outbox[n]
    BY <1>2, <2>2
  <2> QED
    BY <1>1, <2>1, <2>2
<1>5. HonestBox(outbox') /\ Len(outbox') = Len(outbox)
  BY <1>3, <1>4, TableChanges
<1>6. Len(outbox') >= Len(outbox)
  BY <1>5, MessageFacts
<1>7. \A n \in 1..Len(outbox) : outbox[n].sent => outbox'[n].sent
  BY <1>4
<1> QED
  BY <1>1, <1>5, <1>6, <1>7, RoundStands

LEMMA SendAgainStep ==
  ASSUME OutboxInv, NEW n \in 1..Len(outbox), SendAgain(n)
  PROVE  OutboxInv'
<1> DEFINE m == [outbox[n] EXCEPT !.state = "due"]
<1>1. UNCHANGED <<targets, sender>> /\ outbox' = [outbox EXCEPT ![n] = m]
  BY DEF SendAgain
<1>2. outbox[n] \in [to : Target, about : {outbox[n].about},
                     state : {"due", "later", "delivered", "removed"}, sent : BOOLEAN]
  BY MessageFacts
<1>3. /\ m \in [to : Target, about : {outbox[n].about},
                state : {"due", "later", "delivered", "removed"}, sent : BOOLEAN]
      /\ m.to = outbox[n].to /\ Honest(m) /\ m.sent = outbox[n].sent
  BY <1>2 DEF Honest
<1> HIDE DEF m
<1>4. /\ HonestBox(outbox') /\ Len(outbox') = Len(outbox)
      /\ \A k \in 1..Len(outbox) : outbox[k].sent => outbox'[k].sent
  BY <1>1, <1>3, OneChanges
<1>5. Len(outbox) \in Nat
  BY MessageFacts
<1> QED
  BY <1>1, <1>4, <1>5, RoundStands


LEMMA OutboxStands ==
  ASSUME OutboxInv, UNCHANGED outboxVars
  PROVE  OutboxInv'
BY DEF OutboxInv, SenderType, HonestBox, outboxVars, Current

LEMMA PostedStep ==
  ASSUME OutboxInv, UNCHANGED <<targets, sender>>, NEW about, outbox' = Posted(about)
  PROVE  OutboxInv'
<1>1. /\ HonestBox(outbox') /\ Len(outbox') >= Len(outbox)
      /\ \A n \in 1..Len(outbox) : outbox'[n] = outbox[n]
  BY PostedIsHonest DEF OutboxInv
<1>2. \A n \in 1..Len(outbox) : outbox[n].sent => outbox'[n].sent
  BY <1>1
<1> QED
  BY <1>1, <1>2, RoundStands

LEMMA ConfigureStep ==
  ASSUME OutboxInv, NEW t \in Target, Configure(t)
  PROVE  OutboxInv'
<1>1. UNCHANGED <<outbox, sender>> /\ targets' \in {targets \cup {t}, targets \ {t}}
  BY DEF Configure
<1>2. IsFiniteSet(targets \cup {t}) /\ IsFiniteSet(targets \ {t})
  BY FS_AddElement, FS_RemoveElement DEF OutboxInv
<1>3. targets' \subseteq Target /\ IsFiniteSet(targets')
  BY <1>1, <1>2 DEF OutboxInv
<1> QED
  BY <1>1, <1>3 DEF OutboxInv, SenderType, HonestBox, Current

LEMMA OutboxStep == OutboxInv /\ [Next]_vars => OutboxInv'
<1> SUFFICES ASSUME OutboxInv, [Next]_vars PROVE OutboxInv'
  OBVIOUS
<1>1. CASE Notifications
  <2>1. \/ ReadDue \/ Arrives \/ NotSent \/ Finish
        \/ \E some \in SUBSET Waiting : DueAgain(some)
        \/ \E t \in Target : Configure(t)
        \/ \E n \in 1..Len(outbox) : SendAgain(n)
    BY <1>1 DEF Notifications, OutboxSteps, Deliver
  <2> QED
    BY <2>1, ReadDueStep, ArrivesStep, NotSentStep, FinishStep, DueAgainStep, ConfigureStep, SendAgainStep
<1>2. CASE Channels
  <2>1. UNCHANGED <<targets, sender>>
    BY <1>2 DEF Channels, ChannelSteps, Scan, BeginScan, List, TakeUrl, Inspect, InspectFails, ReadLedger,
                AddWindowJob, FanoutScanned, CompleteScan, ReadForEdit, WriteEdit, DeleteChannel,
                AddChannel, SiteChanges, Tick, Quietly, Aside, others
  <2>2. UNCHANGED outbox \/ \E about : outbox' = Posted(about)
    <3>1. CASE CompleteScan
      BY <3>1 DEF CompleteScan, Failed, Succeeded
    <3>2. CASE ~CompleteScan
      BY <1>2, <3>2 DEF Channels, ChannelSteps, Scan, BeginScan, List, TakeUrl, Inspect, InspectFails,
                ReadLedger, AddWindowJob, FanoutScanned, ReadForEdit, WriteEdit, DeleteChannel,
                AddChannel, SiteChanges, Tick, Quietly, Aside
    <3> QED
      BY <3>1, <3>2
  <2> QED
    BY <2>1, <2>2, PostedStep, OutboxStands DEF outboxVars
<1>3. CASE Alerts
  <2>1. UNCHANGED outboxVars \/ (UNCHANGED <<targets, sender>> /\ outbox' = Posted(Head(watch.events)))
    BY <1>3 DEF Alerts, Watch, Look, Reconcile, Tell, outboxVars
  <2> QED
    BY <2>1, PostedStep, OutboxStands
<1>4. CASE Crash
  <2>1. UNCHANGED <<targets, outbox>> /\ sender' = Quiet
    BY <1>4 DEF Crash
  <2> QED
    BY <2>1 DEF OutboxInv, SenderType, Quiet
<1>5. CASE Jobs \/ Replicas \/ Start \/ UNCHANGED vars
  <2>1. UNCHANGED outboxVars
    BY <1>5 DEF Jobs, Replicas, Start, vars, outboxVars
  <2> QED
    BY <2>1, OutboxStands
<1> QED
  BY <1>1, <1>2, <1>3, <1>4, <1>5 DEF Next

LEMMA OutboxStarts == Init => OutboxInv
<1> SUFFICES ASSUME Init PROVE OutboxInv
  OBVIOUS
<1>1. targets = {} /\ outbox = <<>> /\ sender = Quiet
  BY DEF Init, OutboxInit
<1> DEFINE A == {}
<1>2. outbox \in Seq(MessageOf(A)) /\ Len(outbox) = 0
  BY <1>1
<1>3. HonestBox(outbox)
  BY <1>2 DEF HonestBox
<1>4. IsFiniteSet(targets)
  BY <1>1, FS_EmptySet
<1> QED
  BY <1>1, <1>3, <1>4 DEF OutboxInv, SenderType, Quiet

\* A message that counts as delivered, or was trimmed from the table, has reached
\* its destination: neither a settings change during a round nor a retry by hand
\* nor a crash loses one (notifications.rs, finish_notification).
THEOREM NothingIsForgotten == Spec => []NothingUnsentForgotten
<1>1. OutboxInv => NothingUnsentForgotten
  BY DEF OutboxInv, HonestBox, Honest, NothingUnsentForgotten
<1>2. OutboxInv /\ [Next]_vars => OutboxInv'
  BY OutboxStep
<1>3. Init => OutboxInv
  BY OutboxStarts
<1> QED
  BY <1>1, <1>2, <1>3, PTL DEF Spec


----------------------------------------------------------------------------
\* The alerts.

\* While media arrives, no alert of the reception is without it.
MediaInv ==
  /\ alerts \in [Job -> [Condition -> {"none", "open", "resolved"}]]
  /\ unseen = [j \in Job |-> unseen[j]]
  /\ \A j \in Job : Receiving(store.jobs[j]) => unseen[j] = {}
OnlyByMedia ==
  \A j \in Job : \A c \in Reception :
    alerts[j][c] = "open" /\ alerts'[j][c] = "resolved"
      => c \notin unseen[j] \/ Ended(store, j) \/ store.jobs[j].stop

LEMMA AlertsStand ==
  ASSUME MediaInv, UNCHANGED <<alerts, unseen>>,
         \A j \in Job : Receiving(store'.jobs[j]) => store'.jobs[j] = store.jobs[j]
  PROVE  MediaInv' /\ OnlyByMedia
<1>1. MediaInv'
  BY DEF MediaInv, Receiving
<1>2. OnlyByMedia
  BY DEF OnlyByMedia
<1> QED
  BY <1>1, <1>2

LEMMA AlertsFollowStep ==
  ASSUME MediaInv, AlertsFollow
  PROVE  MediaInv' /\ OnlyByMedia
<1>1. alerts' = [j \in Job |-> IF store'.jobs[j].state = "deleted" THEN NoAlerts ELSE alerts[j]]
  BY DEF AlertsFollow
<1>2. unseen' = [j \in Job |->
        IF store'.jobs[j].state = "deleted" \/ Receiving(store'.jobs[j]) THEN {} ELSE unseen[j]]
  BY DEF AlertsFollow
<1>3. NoAlerts \in [Condition -> {"none", "open", "resolved"}] /\ \A c \in Reception : NoAlerts[c] = "none"
  BY DEF NoAlerts, Condition
<1>4. MediaInv'
  BY <1>1, <1>2, <1>3 DEF MediaInv, Receiving
<1>5. OnlyByMedia
  BY <1>1, <1>3 DEF OnlyByMedia
<1> QED
  BY <1>4, <1>5

LEMMA ReconcileStep ==
  ASSUME MediaInv, NEW j \in Job, Reconcile(j)
  PROVE  MediaInv' /\ OnlyByMedia
<1> DEFINE r == store.jobs[j]
<1>1. UNCHANGED store
  BY DEF Reconcile
<1>2. CASE ~Stands(store, j)
  <2>1. UNCHANGED <<alerts, unseen>>
    BY <1>2 DEF Reconcile
  <2> QED
    BY <1>1, <2>1, AlertsStand
<1>3. CASE Stands(store, j)
  <2> DEFINE after == [c \in Condition |->
               IF c \in Opened(j) THEN "open" ELSE IF c \in Resolved(j) THEN "resolved" ELSE alerts[j][c]]
             waits == (unseen[j] \cup (Opened(j) \cap Reception)) \ Resolved(j)
  <2>1. alerts' = [alerts EXCEPT ![j] = after] /\ unseen' = [unseen EXCEPT ![j] = waits]
    BY <1>3 DEF Reconcile
  <2>2. ASSUME Receiving(r) PROVE waits = {}
    <3>1. Shown(r, replica[j]) \cap Reception = {}
      BY <2>2 DEF Shown, Receiving, Reception
    <3>2. KeptOpen(r, j) = {}
      BY <2>2 DEF KeptOpen
    <3>3. Opened(j) \cap Reception = {}
      BY <3>1, <3>2 DEF Opened, Conditions
    <3> QED
      BY <2>2, <3>3 DEF MediaInv
  <2>3. after \in [Condition -> {"none", "open", "resolved"}]
    BY DEF MediaInv
  <2>4. ASSUME NEW c \in Reception, alerts[j][c] = "open", after[c] = "resolved"
        PROVE  Receiving(r) \/ r.state \in Terminal \/ r.stop
    <3>1. c \in Condition
      BY DEF Condition
    <3>2. c \in Open(j)
      BY <2>4, <3>1 DEF Open
    <3>3. c \notin Opened(j) /\ c \in Resolved(j)
      BY <2>4, <3>1, <3>2 DEF Opened
    <3>4. c \notin KeptOpen(r, j)
      BY <3>3 DEF Resolved, Conditions
    <3> QED
      BY <3>2, <3>4 DEF KeptOpen
  <2> HIDE DEF after, waits
  <2>5. MediaInv'
    BY <1>1, <2>1, <2>2, <2>3 DEF MediaInv
  <2>6. ASSUME NEW k \in Job, NEW c \in Reception, alerts[k][c] = "open", alerts'[k][c] = "resolved"
        PROVE  c \notin unseen[k] \/ Ended(store, k) \/ store.jobs[k].stop
    <3>1. k = j
      BY <2>1, <2>6 DEF MediaInv
    <3>2. after[c] = "resolved"
      BY <2>1, <2>6, <3>1 DEF MediaInv
    <3> QED
      BY <2>4, <2>6, <3>1, <3>2 DEF MediaInv, Ended
  <2> QED
    BY <2>5, <2>6 DEF OnlyByMedia
<1> QED
  BY <1>2, <1>3

LEMMA MediaStep == OccurrenceInv /\ MediaInv /\ [Next]_vars => MediaInv' /\ OnlyByMedia
<1> SUFFICES ASSUME OccurrenceInv, MediaInv, [Next]_vars PROVE MediaInv' /\ OnlyByMedia
  OBVIOUS
<1>1. CASE UNCHANGED <<store, alerts, unseen>>
  BY <1>1, AlertsStand
<1>2. CASE Jobs \/ Start
  BY <1>2, AlertsFollowStep DEF Jobs, Start
<1>3. CASE Alerts
  BY <1>1, <1>3, ReconcileStep DEF Alerts, Watch, Look, Tell
<1>4. CASE AddWindowJob /\ UNCHANGED alertVars
  <2> DEFINE occurrence == {scan.key}
             automatic == ~scan.repeat
  <2>1. UNCHANGED store \/ \E a \in Answers(store, scan.request, automatic, 0, occurrence) : store' = a.store
    BY <1>4 DEF AddWindowJob
  <2>2. scan.request \in Request /\ StoreType(store)
    BY <1>4 DEF AddWindowJob, Scans, OccurrenceInv, ScanInv
  <2> HIDE DEF occurrence, automatic
  <2>3. ASSUME NEW a \in Answers(store, scan.request, automatic, 0, occurrence), store' = a.store
        PROVE  \A j \in Job : Receiving(store'.jobs[j]) => store'.jobs[j] = store.jobs[j]
    <3>1. \A j \in Job : a.store.jobs[j] = store.jobs[j] \/ a.store.jobs[j].state = "waiting"
      BY <2>2, <2>3, AnsweredHere
    <3> QED
      BY <2>3, <3>1 DEF Receiving
  <2>4. \A j \in Job : Receiving(store'.jobs[j]) => store'.jobs[j] = store.jobs[j]
    BY <2>1, <2>3
  <2> QED
    BY <1>4, <2>4, AlertsStand DEF alertVars
<1>5. CASE Channels /\ ~AddWindowJob
  <2>1. UNCHANGED <<store, alerts, unseen>>
    BY <1>5 DEF Channels, ChannelSteps, Scan, BeginScan, List, TakeUrl, Inspect, InspectFails, ReadLedger,
                FanoutScanned, CompleteScan, ReadForEdit, WriteEdit, DeleteChannel, AddChannel,
                SiteChanges, Tick, Quietly, Aside, alertVars
  <2> QED
    BY <1>1, <2>1
<1>6. CASE Replicas
  <2>1. UNCHANGED <<store, alerts, unseen>>
    BY <1>6 DEF Replicas, RemoteSteps, Fanout, Courier, Take, CancelUndelivered, Call, CallFails,
                Save, Writes, storeVars, alertVars
  <2> QED
    BY <1>1, <2>1
<1>7. CASE Notifications
  <2>1. UNCHANGED <<store, alerts, unseen>>
    BY <1>7 DEF Notifications, OutboxSteps, Deliver, ReadDue, Arrives, NotSent, Finish, DueAgain,
                Configure, SendAgain, MayRun, alertVars
  <2> QED
    BY <1>1, <2>1
<1>8. CASE Crash \/ UNCHANGED vars
  BY <1>1, <1>8 DEF Crash, vars, alertVars
<1>9. Channels => (AddWindowJob /\ UNCHANGED alertVars) \/ (Channels /\ ~AddWindowJob)
  BY DEF Channels
<1> QED
  BY <1>2, <1>3, <1>4, <1>5, <1>6, <1>7, <1>8, <1>9 DEF Next

LEMMA MediaInit == Init => MediaInv
<1> SUFFICES ASSUME Init PROVE MediaInv
  OBVIOUS
<1>1. alerts = [j \in Job |-> NoAlerts] /\ unseen = [j \in Job |-> {}]
  BY DEF Init, AlertsInit
<1> QED
  BY <1>1 DEF MediaInv, NoAlerts

\* An alert about the reception is resolved only after media, at the end of the
\* job or by a stop request, however often the recorder tries again (conditions
\* and reconcile in alerts.rs).
THEOREM AlertsWaitForMedia == Spec => ResolvedByMedia
<1>1. OccurrenceInv /\ MediaInv /\ [Next]_vars => [OnlyByMedia]_<<alerts, unseen, store>>
  BY MediaStep
<1>2. OccurrenceInv /\ MediaInv /\ [Next]_vars => (OccurrenceInv /\ MediaInv)'
  BY OccurrenceStep, MediaStep
<1>3. Init => OccurrenceInv /\ MediaInv
  BY OccurrenceInit, MediaInit
<1> QED
  BY <1>1, <1>2, <1>3, PTL DEF Spec, ResolvedByMedia, OnlyByMedia

----------------------------------------------------------------------------
\* The types of all that the tasks hold. What makes them more than shapes: a
\* delivery that is not done has tries left, and so has the loop's copy of one;
\* an edit that was read is of a channel that was there.

PurseInv == up \in BOOLEAN /\ budget \in [Disturbances -> Nat]
TableInv == store.requests = {} /\ fanning \subseteq Job
Going(d) == d \in Delivery /\ (~Done(d) => d.tries < MaxTries)
DeliveryInv ==
  /\ replica \in [Job -> Delivery] /\ \A j \in Job : Going(replica[j])
  /\ courier.phase \in Calls \cup {"idle", "cancel", "save"}
  /\ courier.phase = "idle" => courier = Resting
  /\ courier.phase # "idle" => courier.copy \in Delivery /\ courier.copy.tries < MaxTries
SenderInv ==
  /\ sender.phase \in {"idle", "sending", "answered"} /\ sender.targets \subseteq Target
  /\ sender.ok \in BOOLEAN /\ (sender.phase = "idle" => sender.batch = {})
ChannelRow(c) ==
  c \in [id : {0, c.made}, made : Nat, enabled : BOOLEAN, rules : Rules \cup {DefaultRules},
         failures : 0..Failing, incident : BOOLEAN]
ChannelInv ==
  /\ ChannelRow(channel) /\ streak \in 0..Failing
  /\ edit # NoEdit => ChannelRow(edit.row) /\ edit.row.id = edit.id
WatchInv == watch \in [todo : SUBSET Job, events : {watch.events}]
MonitorInv ==
  /\ scan.phase \in {"idle", "listing", "next", "inspecting", "ledger", "adding", "fanning", "complete"}
  /\ scan.rules \in Rules \cup {DefaultRules}
  /\ clock \in Instant /\ \A r \in recorded : r[2] \in Job
HistoryInv == \A j \in Job : unseen[j] \subseteq Reception

LEMMA SpendStep ==
  ASSUME budget \in [Disturbances -> Nat], NEW kind \in Disturbances, Spend(kind)
  PROVE  budget' \in [Disturbances -> Nat]
<1>1. budget[kind] \in Nat /\ budget[kind] > 0
  BY DEF Spend
<1>2. budget[kind] - 1 \in Nat
  BY <1>1
<1> QED
  BY <1>2 DEF Spend

LEMMA PurseStep == PurseInv /\ [Next]_vars => PurseInv'
<1> SUFFICES ASSUME PurseInv, [Next]_vars PROVE PurseInv'
  OBVIOUS
<1>1. ASSUME NEW kind \in Disturbances, Spend(kind) PROVE budget' \in [Disturbances -> Nat]
  BY <1>1, SpendStep DEF PurseInv
<1>2. "crash" \in Disturbances /\ "user" \in Disturbances /\ "capture" \in Disturbances
      /\ "site" \in Disturbances /\ "edit" \in Disturbances /\ "remote" \in Disturbances
      /\ "clock" \in Disturbances /\ "settings" \in Disturbances /\ "replica" \in Disturbances
  BY DEF Disturbances
<1>3. ASSUME UNCHANGED <<up, budget>> PROVE PurseInv'
  BY <1>3 DEF PurseInv
<1>4. ASSUME NEW kind \in Disturbances, Spend(kind), UNCHANGED up PROVE PurseInv'
  BY <1>1, <1>4 DEF PurseInv
<1>5. CASE Jobs
  <2>1. \/ (Spend("user") /\ UNCHANGED up)
        \/ (Spend("capture") /\ UNCHANGED up)
    BY <1>5 DEF Jobs, LocalSteps, JobSteps, Deadline, Stop, Retry, Recover, Delete, Capture, Set, Record
  <2> QED
    BY <1>2, <1>4, <2>1
<1>6. CASE Replicas
  <2>1. \/ UNCHANGED <<up, budget>> \/ (Spend("remote") /\ UNCHANGED up)
        \/ (Spend("replica") /\ UNCHANGED up)
    BY <1>6 DEF Replicas, RemoteSteps, Fanout, Enqueue, Courier, Take, CancelUndelivered, Call,
                CallFails, Save, Writes, storeVars
  <2> QED
    BY <1>2, <1>3, <1>4, <2>1
<1>7. CASE Channels
  <2>1. \/ UNCHANGED <<up, budget>> \/ (Spend("site") /\ UNCHANGED up) \/ (Spend("replica") /\ UNCHANGED up)
        \/ (Spend("edit") /\ UNCHANGED up) \/ (Spend("clock") /\ UNCHANGED up)
    BY <1>7 DEF Channels, ChannelSteps, Scan, BeginScan, List, TakeUrl, Inspect, InspectFails, ReadLedger,
                AddWindowJob, FanoutScanned, Enqueue, CompleteScan, ReadForEdit, WriteEdit, DeleteChannel,
                AddChannel, SiteChanges, Tick, Quietly, Aside
  <2> QED
    BY <1>2, <1>3, <1>4, <2>1
<1>8. CASE Notifications
  <2>1. \/ UNCHANGED <<up, budget>> \/ (Spend("settings") /\ UNCHANGED up) \/ (Spend("user") /\ UNCHANGED up)
    BY <1>8 DEF Notifications, OutboxSteps, Deliver, ReadDue, Arrives, NotSent, Finish, DueAgain,
                Configure, SendAgain, MayRun
  <2> QED
    BY <1>2, <1>3, <1>4, <2>1
<1>9. CASE Alerts
  BY <1>3, <1>9 DEF Alerts, Watch, Look, Reconcile, Tell
<1>10. CASE Crash
  BY <1>1, <1>2, <1>10 DEF Crash, PurseInv
<1>11. CASE Start
  BY <1>11 DEF Start, PurseInv
<1> QED
  BY <1>3, <1>5, <1>6, <1>7, <1>8, <1>9, <1>10, <1>11 DEF Next, vars

\* No job here is made for a request of another service, for none is asked.
LEMMA TableStep == OccurrenceInv /\ TableInv /\ [Next]_vars => TableInv'
<1> SUFFICES ASSUME OccurrenceInv, TableInv, [Next]_vars PROVE TableInv'
  OBVIOUS
<1>1. StoreType(store) /\ store.requests = {} /\ fanning \subseteq Job
  BY DEF OccurrenceInv, TableInv
<1>2. CASE LocalSteps
  <2>1. UNCHANGED fanning /\ JobSteps
    BY <1>2 DEF LocalSteps
  <2>2. PICK j \in Job : (\E x : store' = SetJob(store, j, x)) \/ store' = Deleted(store, j)
    BY <2>1 DEF JobSteps, Deadline, Stop, Retry, Recover, Delete, Capture, Set
  <2>3. ASSUME NEW x PROVE SetJob(store, j, x).requests = store.requests
    BY <1>1 DEF StoreType, SetJob
  <2>4. Deleted(store, j).requests = {}
    BY <1>1 DEF StoreType, Deleted
  <2> QED
    BY <1>1, <2>1, <2>2, <2>3, <2>4 DEF TableInv
<1>3. ASSUME NEW request \in UserRequest, Record(request) PROVE TableInv'
  <2> DEFINE automatic == FALSE
             none == {}
  <2>1. PICK a \in Answers(store, request, automatic, 0, none) :
          store' = a.store /\ fanning' \subseteq fanning \cup {a.job}
    BY <1>3 DEF Record
  <2>2. request \in Request
    BY DEF UserRequest
  <2> HIDE DEF automatic, none
  <2>3. a.job \in Job /\ a.store.requests = store.requests
    BY <1>1, <2>2, AnsweredHere
  <2> QED
    BY <1>1, <2>1, <2>3 DEF TableInv
<1>4. CASE AddWindowJob
  <2> DEFINE occurrence == {scan.key}
             automatic == ~scan.repeat
  <2>1. UNCHANGED store \/ \E a \in Answers(store, scan.request, automatic, 0, occurrence) : store' = a.store
    BY <1>4 DEF AddWindowJob
  <2>2. scan.request \in Request /\ UNCHANGED fanning
    BY <1>4 DEF AddWindowJob, Scans, OccurrenceInv, ScanInv, others
  <2> HIDE DEF occurrence, automatic
  <2>3. ASSUME NEW a \in Answers(store, scan.request, automatic, 0, occurrence)
        PROVE  a.store.requests = store.requests
    BY <1>1, <2>2, AnsweredHere
  <2> QED
    BY <1>1, <2>1, <2>2, <2>3 DEF TableInv
<1>5. ASSUME UNCHANGED store, fanning' \subseteq fanning PROVE TableInv'
  BY <1>5 DEF TableInv
<1>6. CASE Replicas
  <2>1. UNCHANGED store /\ fanning' \subseteq fanning
    BY <1>6 DEF Replicas, RemoteSteps, Fanout, Courier, Take, CancelUndelivered, Call, CallFails,
                Save, Writes, storeVars
  <2> QED
    BY <1>5, <2>1
<1>7. CASE Channels /\ ~AddWindowJob
  <2>1. UNCHANGED <<store, fanning>>
    BY <1>7 DEF Channels, ChannelSteps, Scan, BeginScan, List, TakeUrl, Inspect, InspectFails, ReadLedger,
                FanoutScanned, CompleteScan, ReadForEdit, WriteEdit, DeleteChannel, AddChannel,
                SiteChanges, Tick, Quietly, Aside, others
  <2> QED
    BY <1>5, <2>1
<1>8. CASE Notifications \/ Alerts \/ UNCHANGED vars
  <2>1. UNCHANGED <<store, fanning>>
    BY <1>8 DEF Notifications, OutboxSteps, Deliver, ReadDue, Arrives, NotSent, Finish, DueAgain,
                Configure, SendAgain, MayRun, Alerts, Watch, Look, Reconcile, Tell, vars, replicaVars
  <2> QED
    BY <1>5, <2>1
<1>9. CASE Crash
  BY <1>5, <1>9 DEF Crash
<1>10. CASE Start
  BY <1>1, <1>10 DEF Start, StoreType, TableInv, replicaVars
<1> QED
  BY <1>2, <1>3, <1>4, <1>6, <1>7, <1>8, <1>9, <1>10 DEF Next, Jobs, Channels

\* A delivery is tried as long as it has tries left, and the loop's copy of one is
\* of a delivery that had.
LEMMA DeliveryStep == RemoteInv /\ DeliveryInv /\ [Next]_vars => DeliveryInv'
<1> SUFFICES ASSUME RemoteInv, DeliveryInv, [Next]_vars PROVE DeliveryInv'
  OBVIOUS
<1>1. CASE UNCHANGED <<replica, courier>>
  BY <1>1 DEF DeliveryInv
<1>2. NoDelivery \in Delivery /\ Going(NoDelivery) /\ MaxTries \in Nat /\ MaxTries > 0
  BY ReplicaAssumption DEF NoDelivery, Delivery, Going, Done
<1>3. ASSUME UNCHANGED courier, replica' \in [Job -> Delivery], \A j \in Job : Going(replica'[j])
      PROVE  DeliveryInv'
  BY <1>3 DEF DeliveryInv
<1>4. ASSUME NEW j, Enqueue(j), UNCHANGED courier PROVE DeliveryInv'
  <2>1. CASE UNCHANGED replica
    BY <1>1, <1>4, <2>1
  <2>2. CASE j \in Job /\ replica[j] = NoDelivery /\ replica' = [replica EXCEPT ![j].state = "pending"]
    <3> DEFINE d == [NoDelivery EXCEPT !.state = "pending"]
    <3>1. d \in Delivery /\ Going(d)
      BY <1>2 DEF NoDelivery, Delivery, Going
    <3>2. replica' = [replica EXCEPT ![j] = d]
      BY <2>2
    <3> HIDE DEF d
    <3> QED
      BY <1>3, <1>4, <2>2, <3>1, <3>2 DEF DeliveryInv
  <2>3. CASE j \notin Job /\ replica' = [replica EXCEPT ![j].state = "pending"]
    BY <1>1, <1>4, <2>3 DEF DeliveryInv
  <2> QED
    BY <1>4, <2>1, <2>2, <2>3 DEF Enqueue
<1>5. CASE LocalSteps
  <2>1. /\ UNCHANGED courier
        /\ replica' = [j \in Job |-> IF store'.jobs[j].state = "deleted" THEN NoDelivery ELSE replica[j]]
    BY <1>5 DEF LocalSteps
  <2> QED
    BY <1>2, <1>3, <2>1 DEF DeliveryInv
<1>6. ASSUME NEW d, Going(d), Writes(d), courier.job \in Job PROVE DeliveryInv'
  <2>1. courier' = Resting /\ (replica' = replica \/ replica' = [replica EXCEPT ![courier.job] = d])
    BY <1>6 DEF Writes
  <2>2. replica' \in [Job -> Delivery] /\ \A j \in Job : Going(replica'[j])
    BY <1>6, <2>1 DEF DeliveryInv, Going
  <2> QED
    BY <1>2, <2>1, <2>2 DEF DeliveryInv, Resting
<1>7. courier.phase # "idle" =>
        courier.job \in Job /\ courier.copy \in Delivery /\ courier.copy.tries < MaxTries
  BY DEF RemoteInv, CourierInv, DeliveryInv
<1>8. ASSUME NEW j \in Job, Take(j) PROVE DeliveryInv'
  <2>1. /\ UNCHANGED replica /\ courier'.copy = replica[j] /\ courier'.phase \in {"cancel", "find"}
        /\ ~Done(replica[j])
    BY <1>8 DEF Take
  <2> QED
    BY <2>1 DEF DeliveryInv, Going, Calls
<1>9. CASE CancelUndelivered
  <2>1. courier.phase = "cancel" /\ Writes([courier.copy EXCEPT !.state = "cancelled"])
    BY <1>9 DEF CancelUndelivered
  <2>2. Going([courier.copy EXCEPT !.state = "cancelled"])
    BY <1>7, <2>1 DEF Going, Delivery, Done
  <2> QED
    BY <1>6, <1>7, <2>1, <2>2
<1>10. ASSUME courier.phase \in Calls, UNCHANGED replica, courier'.copy = courier.copy,
              courier'.phase \in Calls \cup {"save"}
       PROVE  DeliveryInv'
  BY <1>7, <1>10 DEF DeliveryInv, Calls
<1>11. ASSUME Fails PROVE courier'.copy = courier.copy /\ courier'.phase = "save"
  BY <1>11 DEF Fails, RemoteInv, CourierInv, CourierType
<1>12. CASE Call
  <2>1. PICK a \in Handled :
          \/ courier' = [courier EXCEPT !.at = a.job, !.seen = a.store.jobs[a.job], !.ok = TRUE,
                                        !.phase = After(a.store.jobs[a.job])]
          \/ Fails
    BY <1>12 DEF Call
  <2>2. After(a.store.jobs[a.job]) \in Calls \cup {"save"}
    BY DEF After, AfterFind, AfterStop, AfterPlan, Calls
  <2>3. courier.phase \in Calls /\ UNCHANGED replica
    BY <1>12 DEF Call
  <2>4. CASE Fails
    BY <1>10, <1>11, <2>3, <2>4
  <2>5. CASE ~Fails
    <3> DEFINE seen == a.store.jobs[a.job]
               phase == After(seen)
    <3>1. courier' = [courier EXCEPT !.at = a.job, !.seen = seen, !.ok = TRUE, !.phase = phase]
      BY <2>1, <2>5
    <3>2. phase \in Calls \cup {"save"}
      BY <2>2
    <3> HIDE DEF seen, phase
    <3>3. courier'.copy = courier.copy /\ courier'.phase = phase
      BY <3>1 DEF RemoteInv, CourierInv, CourierType
    <3> QED
      BY <1>10, <2>3, <3>2, <3>3
  <2> QED
    BY <2>4, <2>5
<1>13. CASE CallFails
  BY <1>10, <1>13, <1>11 DEF CallFails
<1>14. CASE Save
  <2>1. courier.phase = "save" /\ courier.phase # "idle"
    BY <1>14 DEF Save
  <2>2. CASE courier.ok
    <3> DEFINE d == [state |-> Followed, remote |-> courier.at, tries |-> 0]
    <3>1. Followed \in {"failed", "finished", "accepted"} /\ courier.at \in {0} \cup Job
      BY DEF Followed, RemoteInv, CourierInv, CourierType
    <3>2. Going(d)
      BY <1>2, <3>1 DEF Going, Delivery
    <3>3. Writes(d)
      BY <1>14, <2>2 DEF Save
    <3> QED
      BY <1>6, <1>7, <2>1, <3>2, <3>3
  <2>3. CASE ~courier.ok
    <3> DEFINE tries == courier.copy.tries + 1
               state == IF tries >= MaxTries THEN "failed" ELSE "retrying"
               d == [courier.copy EXCEPT !.tries = tries, !.state = state]
    <3>1. Writes(d)
      BY <1>14, <2>3 DEF Save
    <3>2. courier.copy \in Delivery /\ courier.copy.tries < MaxTries
      BY <1>7, <2>1
    <3>3. courier.copy.tries \in 0..MaxTries
      BY <3>2 DEF Delivery
    <3>4. tries \in 0..MaxTries /\ state \in {"failed", "retrying"} /\ (state # "failed" => tries < MaxTries)
      BY <1>2, <3>2, <3>3
    <3> HIDE DEF tries, state
    <3>5. d \in Delivery /\ d.state = state /\ d.tries = tries
      BY <3>2, <3>4 DEF Delivery
    <3>6. Going(d)
      BY <3>4, <3>5 DEF Going, Done
    <3> HIDE DEF d
    <3> QED
      BY <1>6, <1>7, <2>1, <3>1, <3>6
  <2> QED
    BY <2>2, <2>3
<1>15. CASE Replicas
  <2>1. \/ RemoteSteps \/ CancelUndelivered \/ Call \/ CallFails \/ Save
        \/ \E j \in Job : Fanout(j) \/ Take(j)
    BY <1>15 DEF Replicas, Courier
  <2>2. RemoteSteps => UNCHANGED <<replica, courier>>
    BY DEF RemoteSteps
  <2>3. \A j \in Job : Fanout(j) => Enqueue(j) /\ UNCHANGED courier
    BY DEF Fanout
  <2> QED
    BY <1>1, <1>4, <1>8, <1>9, <1>12, <1>13, <1>14, <2>1, <2>2, <2>3
<1>16. CASE Channels
  <2>1. UNCHANGED courier /\ (UNCHANGED replica \/ Enqueue(scan.job))
    BY <1>16 DEF Channels, ChannelSteps, Scan, BeginScan, List, TakeUrl, Inspect, InspectFails, ReadLedger,
                AddWindowJob, FanoutScanned, CompleteScan, ReadForEdit, WriteEdit, DeleteChannel,
                AddChannel, SiteChanges, Tick, Quietly, Aside, others
  <2> QED
    BY <1>1, <1>4, <2>1
<1>17. CASE Crash
  BY <1>2, <1>17 DEF Crash, DeliveryInv, Resting
<1>18. CASE Jobs
  <2>1. LocalSteps \/ UNCHANGED <<replica, courier>>
    BY <1>18 DEF Jobs, Record
  <2> QED
    BY <1>1, <1>5, <2>1
<1>19. CASE Notifications \/ Alerts \/ Start \/ UNCHANGED vars
  <2>1. UNCHANGED <<replica, courier>>
    BY <1>19 DEF Notifications, Alerts, Watch, Look, Reconcile, Tell, Start, vars, replicaVars
  <2> QED
    BY <1>1, <2>1
<1> QED
  BY <1>15, <1>16, <1>17, <1>18, <1>19 DEF Next

LEMMA SenderStep == OutboxInv /\ SenderInv /\ [Next]_vars => SenderInv'
<1> SUFFICES ASSUME OutboxInv, SenderInv, [Next]_vars PROVE SenderInv'
  OBVIOUS
<1>1. CASE UNCHANGED sender
  BY <1>1 DEF SenderInv
<1>2. SenderType
  BY DEF OutboxInv
<1>3. ASSUME NEW ok \in BOOLEAN, Answered(ok) PROVE SenderInv'
  BY <1>2, <1>3 DEF Answered, SenderInv, SenderType
<1>4. CASE ReadDue
  BY <1>4 DEF ReadDue, SenderInv, OutboxInv
<1>5. CASE Finish
  <2>1. \/ sender' = Quiet
        \/ sender' = [sender EXCEPT !.phase = "sending", !.batch = @ \ {Current}, !.ok = FALSE]
    BY <1>5 DEF Finish
  <2>2. CASE sender' = Quiet
    BY <2>2 DEF SenderInv, Quiet
  <2>3. CASE sender' = [sender EXCEPT !.phase = "sending", !.batch = @ \ {Current}, !.ok = FALSE]
    BY <1>2, <2>3 DEF SenderInv, SenderType
  <2> QED
    BY <2>1, <2>2, <2>3
<1>6. CASE Notifications
  <2>1. UNCHANGED sender \/ ReadDue \/ Finish \/ \E ok \in BOOLEAN : Answered(ok)
    BY <1>6 DEF Notifications, OutboxSteps, Deliver, Arrives, NotSent, DueAgain, Configure, SendAgain
  <2> QED
    BY <1>1, <1>3, <1>4, <1>5, <2>1
<1>7. CASE Crash
  BY <1>7 DEF Crash, SenderInv, Quiet
<1>8. CASE Channels
  BY <1>1, <1>8 DEF Channels, ChannelSteps, Scan, BeginScan, List, TakeUrl, Inspect, InspectFails, ReadLedger,
                AddWindowJob, FanoutScanned, CompleteScan, ReadForEdit, WriteEdit, DeleteChannel,
                AddChannel, SiteChanges, Tick, Quietly, Aside, others
<1>9. CASE Jobs \/ Replicas \/ Alerts \/ Start \/ UNCHANGED vars
  BY <1>1, <1>9 DEF Jobs, Replicas, Alerts, Watch, Look, Reconcile, Tell, Start, vars, outboxVars
<1> QED
  BY <1>6, <1>7, <1>8, <1>9 DEF Next

\* A row of the channel, whoever writes it, and a channel that is edited.
LEMMA ChannelStep == ChannelInv /\ [Next]_vars => ChannelInv'
<1> SUFFICES ASSUME ChannelInv, [Next]_vars PROVE ChannelInv'
  OBVIOUS
<1>1. CASE UNCHANGED <<channel, edit, streak>>
  BY <1>1 DEF ChannelInv, ChannelRow
<1>2. ASSUME UNCHANGED edit, ChannelRow(channel'), streak' \in 0..Failing PROVE ChannelInv'
  BY <1>2 DEF ChannelInv, ChannelRow
<1>3. Failing \in Nat /\ Failing > 0 /\ 0 \in 0..Failing /\ streak \in 0..Failing
  BY MonitorAssumption DEF ChannelInv
<1>4. CASE Failed /\ UNCHANGED edit
  <2> DEFINE failures == IF channel.failures < Failing THEN channel.failures + 1 ELSE Failing
             opens == failures >= Failing /\ ~channel.incident
  <2>1. /\ channel' = [channel EXCEPT !.failures = failures, !.incident = @ \/ opens]
        /\ streak' = IF streak < Failing THEN streak + 1 ELSE streak
    BY <1>4 DEF Failed
  <2>2. channel.failures \in 0..Failing
    BY DEF ChannelInv, ChannelRow
  <2>3. failures \in 0..Failing /\ streak' \in 0..Failing
    BY <1>3, <2>1, <2>2
  <2>4. (channel.incident \/ opens) \in BOOLEAN
    OBVIOUS
  <2> HIDE DEF failures, opens
  <2>5. ChannelRow(channel')
    BY <2>1, <2>3, <2>4 DEF ChannelInv, ChannelRow
  <2> QED
    BY <1>2, <1>4, <2>3, <2>5
<1>5. CASE Succeeded /\ UNCHANGED edit
  <2>1. channel' = [channel EXCEPT !.failures = 0, !.incident = FALSE] /\ streak' = 0
    BY <1>5 DEF Succeeded
  <2>2. ChannelRow([channel EXCEPT !.failures = 0, !.incident = FALSE])
    BY <1>3 DEF ChannelInv, ChannelRow
  <2> QED
    BY <1>2, <1>3, <1>5, <2>1, <2>2
<1>6. CASE CompleteScan
  <2>1. UNCHANGED edit /\ (UNCHANGED <<channel, streak>> \/ Failed \/ Succeeded)
    BY <1>6 DEF CompleteScan, others
  <2> QED
    BY <1>1, <1>4, <1>5, <2>1
<1>7. CASE ReadForEdit
  <2>1. PICK r \in Rules, b \in BOOLEAN :
          edit' = [id |-> channel.id, row |-> [channel EXCEPT !.rules = r, !.enabled = b]]
    BY <1>7 DEF ReadForEdit
  <2> DEFINE row == [channel EXCEPT !.rules = r, !.enabled = b]
  <2>2. ChannelRow(row) /\ row.id = channel.id
    BY DEF ChannelInv, ChannelRow
  <2>3. UNCHANGED <<channel, streak>>
    BY <1>7 DEF ReadForEdit
  <2> HIDE DEF row
  <2>4. edit'.id = channel.id /\ edit'.row = row
    BY <2>1 DEF row
  <2>5. ChannelRow(edit'.row) /\ edit'.row.id = edit'.id
    BY <2>2, <2>4
  <2> QED
    BY <2>3, <2>5 DEF ChannelInv
<1>8. CASE WriteEdit
  <2>1. /\ edit # NoEdit /\ edit' = NoEdit /\ UNCHANGED streak
        /\ channel' = channel \/ channel' = edit.row
    BY <1>8 DEF WriteEdit
  <2>2. ChannelRow(channel')
    BY <2>1 DEF ChannelInv
  <2> QED
    BY <2>1, <2>2 DEF ChannelInv

<1>9. ASSUME NEW made \in Nat PROVE ChannelRow(NoChannel(made))
  BY <1>3, <1>9 DEF ChannelRow, NoChannel
<1>10. channel.made \in Nat /\ channel.made + 1 \in Nat
  BY DEF ChannelInv, ChannelRow
<1>11. CASE DeleteChannel
  BY <1>2, <1>3, <1>9, <1>10, <1>11 DEF DeleteChannel
<1>12. CASE AddChannel
  <2> DEFINE made == channel.made + 1
             none == NoChannel(made)
  <2>1. channel' = [none EXCEPT !.id = made, !.enabled = TRUE] /\ streak' = 0 /\ UNCHANGED edit
    BY <1>12 DEF AddChannel
  <2>2. made \in Nat
    BY <1>10
  <2>3. ChannelRow(none) /\ none.made = made
    BY <1>9, <2>2 DEF NoChannel
  <2> HIDE DEF made, none
  <2>4. ChannelRow([none EXCEPT !.id = made, !.enabled = TRUE])
    BY <2>2, <2>3 DEF ChannelRow
  <2> QED
    BY <1>2, <1>3, <2>1, <2>4
<1>13. CASE Channels
  <2>1. \/ CompleteScan \/ ReadForEdit \/ WriteEdit \/ DeleteChannel \/ AddChannel
        \/ UNCHANGED <<channel, edit, streak>>
    BY <1>13 DEF Channels, ChannelSteps, Scan, BeginScan, List, TakeUrl, Inspect, InspectFails, ReadLedger,
                AddWindowJob, FanoutScanned, SiteChanges, Tick, Quietly
  <2> QED
    BY <1>1, <1>6, <1>7, <1>8, <1>11, <1>12, <2>1
<1>14. CASE Crash
  BY <1>14 DEF Crash, ChannelInv, ChannelRow
<1> QED
  BY <1>1, <1>13, <1>14 DEF Next, vars, Jobs, Replicas, Notifications, Alerts, Start, monitorVars

LEMMA MonitorStep == OccurrenceInv /\ ChannelInv /\ MonitorInv /\ [Next]_vars => MonitorInv'
<1> SUFFICES ASSUME OccurrenceInv, ChannelInv, MonitorInv, [Next]_vars PROVE MonitorInv'
  OBVIOUS
<1> DEFINE Phases == {"idle", "listing", "next", "inspecting", "ledger", "adding", "fanning", "complete"}
           Given == Rules \cup {DefaultRules}
<1>1. CASE UNCHANGED <<scan, clock, recorded>>
  BY <1>1 DEF MonitorInv
<1>2. ASSUME UNCHANGED <<clock, recorded>>, scan'.phase \in Phases, scan'.rules \in Given PROVE MonitorInv'
  BY <1>2 DEF MonitorInv
<1>3. ASSUME NEW urls, NEW error, Onward(urls, error)
      PROVE  scan'.phase \in Phases /\ scan'.rules \in Given
  BY <1>3 DEF Onward, NextPhase, NoScan
<1>4. NoScan.phase \in Phases /\ NoScan.rules \in Given
  BY DEF NoScan
<1>5. ScanInv
  BY DEF OccurrenceInv
<1>6. CASE BeginScan
  <2>1. UNCHANGED <<clock, recorded>> /\ scan'.phase \in {"complete", "listing"} /\ scan'.rules = DefaultRules
    BY <1>6 DEF BeginScan, Quietly, NoScan
  <2> QED
    BY <1>2, <2>1
<1>7. CASE List
  <2>1. UNCHANGED <<clock, recorded>> /\ \E urls, error : Onward(urls, error)
    BY <1>7 DEF List, Quietly
  <2> QED
    BY <1>2, <1>3, <2>1
<1>8. CASE TakeUrl
  <2>1. UNCHANGED <<clock, recorded>>
    BY <1>8 DEF TakeUrl, Quietly
  <2>2. \/ Onward({}, FALSE)
        \/ \E urls, request : scan' = [scan EXCEPT !.phase = "inspecting", !.urls = urls, !.rules = channel.rules,
                                                   !.request = request]
    BY <1>8 DEF TakeUrl
  <2>3. channel.rules \in Given
    BY DEF ChannelInv, ChannelRow
  <2>4. ASSUME NEW urls, NEW request,
               scan' = [scan EXCEPT !.phase = "inspecting", !.urls = urls, !.rules = channel.rules,
                                    !.request = request]
        PROVE  scan'.phase \in Phases /\ scan'.rules \in Given
    BY <1>5, <2>3, <2>4 DEF ScanInv
  <2> QED
    BY <1>2, <1>3, <2>1, <2>2, <2>4
<1>9. CASE Inspect
  <2>1. UNCHANGED <<clock, recorded>>
    BY <1>9 DEF Inspect, Quietly
  <2>2. CASE Onward(scan.urls, FALSE)
    BY <1>2, <1>3, <2>1, <2>2
  <2>3. CASE ~Onward(scan.urls, FALSE)
    <3> DEFINE until == IF scan.rules.window = {} THEN "none" ELSE "window"
               key == <<scan.id, scan.request.video, StartOf(scan.rules)>>
    <3>1. scan' = [scan EXCEPT !.phase = "ledger", !.key = key, !.repeat = scan.rules.window # {},
                               !.request.until = until]
      BY <1>9, <2>3 DEF Inspect
    <3> HIDE DEF until, key
    <3>2. scan'.phase = "ledger" /\ scan'.rules = scan.rules
      BY <1>5, <3>1 DEF ScanInv
    <3> QED
      BY <1>2, <2>1, <3>2 DEF MonitorInv
  <2> QED
    BY <2>2, <2>3
<1>10. CASE InspectFails \/ FanoutScanned
  <2>1. UNCHANGED <<clock, recorded>> /\ \E error : Onward(scan.urls, error)
    BY <1>10 DEF InspectFails, FanoutScanned, Quietly
  <2> QED
    BY <1>2, <1>3, <2>1
<1>11. CASE ReadLedger
  <2>1. /\ UNCHANGED <<clock, recorded>>
        /\ Onward(scan.urls, FALSE) \/ scan' = [scan EXCEPT !.phase = "adding"]
    BY <1>11 DEF ReadLedger, Quietly
  <2>2. ASSUME scan' = [scan EXCEPT !.phase = "adding"]
        PROVE  scan'.phase \in Phases /\ scan'.rules \in Given
    BY <1>5, <2>2 DEF ScanInv, MonitorInv
  <2> QED
    BY <1>2, <1>3, <2>1, <2>2
<1>12. CASE AddWindowJob
  <2> DEFINE occurrence == {scan.key}
             automatic == ~scan.repeat
  <2>1. UNCHANGED clock
    BY <1>12 DEF AddWindowJob
  <2>2. CASE Onward(scan.urls, FALSE) /\ UNCHANGED recorded
    BY <1>2, <1>3, <2>1, <2>2
  <2>3. CASE ~(Onward(scan.urls, FALSE) /\ UNCHANGED recorded)
    <3>1. PICK a \in Answers(store, scan.request, automatic, 0, occurrence) :
            /\ scan' = [scan EXCEPT !.phase = "fanning", !.job = a.job]
            /\ recorded' = IF Stands(store, a.job) THEN recorded ELSE recorded \cup {<<scan.key, a.job>>}
      BY <1>12, <2>3 DEF AddWindowJob
    <3>2. scan.request \in Request /\ StoreType(store)
      BY <1>5, <1>12 DEF AddWindowJob, Scans, ScanInv, OccurrenceInv
    <3> HIDE DEF occurrence, automatic
    <3>3. a.job \in Job
      BY <3>1, <3>2, AnsweredHere
    <3>4. scan'.phase = "fanning" /\ scan'.rules = scan.rules
      BY <1>5, <3>1 DEF ScanInv
    <3>5. \A r \in recorded' : r[2] \in Job
      BY <3>1, <3>3 DEF MonitorInv
    <3> QED
      BY <2>1, <3>4, <3>5 DEF MonitorInv
  <2> QED
    BY <2>2, <2>3
<1>13. CASE CompleteScan
  BY <1>2, <1>4, <1>13 DEF CompleteScan
<1>14. CASE Tick
  <2>1. UNCHANGED <<scan, recorded>>
    BY <1>14 DEF Tick, Aside
  <2>2. /\ clock' = [clock EXCEPT !.minute = @ + 1] /\ clock.minute + 1 < DayLength
        \/ clock' = [day |-> clock.day + 1, minute |-> 0]
    BY <1>14 DEF Tick
  <2>3. clock \in Instant /\ clock.day \in Int /\ clock.minute \in 0..(DayLength - 1) /\ DayLength \in Nat \ {0}
    BY CalendarAssumption DEF MonitorInv, Instant, Minute
  <2>4. clock' \in Instant
    BY <2>2, <2>3 DEF Instant, Minute
  <2> QED
    BY <2>1, <2>4 DEF MonitorInv
<1>15. CASE Channels
  <2>1. Scan \/ Tick \/ UNCHANGED <<scan, clock, recorded>>
    BY <1>15 DEF Channels, ChannelSteps, ReadForEdit, WriteEdit, DeleteChannel, AddChannel, SiteChanges, Aside
  <2> QED
    BY <1>1, <1>6, <1>7, <1>8, <1>9, <1>10, <1>11, <1>12, <1>13, <1>14, <2>1 DEF Scan
<1>16. CASE Crash
  BY <1>2, <1>4, <1>16 DEF Crash
<1> QED
  BY <1>1, <1>15, <1>16 DEF Next, vars, Jobs, Replicas, Notifications, Alerts, Start, monitorVars

LEMMA WatchStep == MediaInv /\ WatchInv /\ HistoryInv /\ [Next]_vars => WatchInv' /\ HistoryInv'
<1> SUFFICES ASSUME MediaInv, WatchInv, HistoryInv, [Next]_vars PROVE WatchInv' /\ HistoryInv'
  OBVIOUS
<1>1. CASE UNCHANGED <<watch, unseen>>
  BY <1>1 DEF WatchInv, HistoryInv
<1>2. CASE AlertsFollow
  BY <1>2 DEF AlertsFollow, WatchInv, HistoryInv
<1>3. CASE Look
  <2> DEFINE todo == {j \in Job : Stands(store, j) /\ Conditions(j) # Open(j)}
  <2>1. watch' = [Idle EXCEPT !.todo = todo] /\ UNCHANGED unseen /\ todo \subseteq Job
    BY <1>3 DEF Look
  <2> HIDE DEF todo
  <2> QED
    BY <2>1 DEF WatchInv, HistoryInv, Idle
<1>4. ASSUME NEW j \in Job, Reconcile(j) PROVE WatchInv' /\ HistoryInv'
  <2>1. WatchInv'
    <3>1. \E events : watch' = [todo |-> watch.todo \ {j}, events |-> events]
      BY <1>4 DEF Reconcile
    <3> QED
      BY <3>1 DEF WatchInv
  <2>2. \/ UNCHANGED unseen
        \/ unseen' = [unseen EXCEPT ![j] = (@ \cup (Opened(j) \cap Reception)) \ Resolved(j)]
    BY <1>4 DEF Reconcile
  <2>3. HistoryInv'
    BY <2>2 DEF HistoryInv, MediaInv
  <2> QED
    BY <2>1, <2>3
<1>5. CASE Tell
  BY <1>5 DEF Tell, WatchInv, HistoryInv
<1>6. CASE Crash
  BY <1>6 DEF Crash, WatchInv, HistoryInv, Idle
<1>7. CASE Jobs \/ Start
  BY <1>2, <1>7 DEF Jobs, Start
<1>8. CASE Replicas \/ Channels \/ Notifications \/ UNCHANGED vars
  BY <1>1, <1>8 DEF Replicas, Channels, Notifications, vars, alertVars
<1>9. CASE Alerts
  BY <1>3, <1>4, <1>5, <1>9 DEF Alerts, Watch
<1> QED
  BY <1>6, <1>7, <1>8, <1>9 DEF Next

TypeInv ==
  /\ OccurrenceInv /\ RemoteInv /\ OutboxInv /\ MediaInv
  /\ PurseInv /\ TableInv /\ DeliveryInv /\ SenderInv /\ ChannelInv /\ MonitorInv /\ WatchInv /\ HistoryInv

LEMMA TypeInit == Init => TypeInv
<1> SUFFICES ASSUME Init PROVE TypeInv
  OBVIOUS
<1>1. OccurrenceInv /\ RemoteInv /\ OutboxInv /\ MediaInv
  BY OccurrenceInit, RemoteInit, OutboxStarts, MediaInit
<1>2. PurseInv
  BY BudgetAssumption DEF Init, StoreInit, PurseInv
<1>3. TableInv
  BY DEF Init, StoreInit, ReplicaInit, EmptyStore, TableInv
<1>4. NoDelivery \in Delivery /\ Going(NoDelivery)
  BY ReplicaAssumption DEF NoDelivery, Delivery, Going, Done
<1>5. DeliveryInv
  BY <1>4 DEF Init, ReplicaInit, DeliveryInv, Resting
<1>6. SenderInv
  BY DEF Init, OutboxInit, SenderInv, Quiet
<1>7. 0 \in 0..Failing
  BY MonitorAssumption
<1>8. ChannelInv
  BY <1>7 DEF Init, MonitorInit, ChannelInv, ChannelRow, NoChannel
<1>9. 0 \in 0..(DayLength - 1)
  BY CalendarAssumption
<1>10. MonitorInv
  BY <1>9 DEF Init, MonitorInit, MonitorInv, NoScan, Instant, Minute
<1>11. WatchInv /\ HistoryInv
  BY DEF Init, AlertsInit, WatchInv, HistoryInv, Idle
<1> QED
  BY <1>1, <1>2, <1>3, <1>5, <1>6, <1>8, <1>10, <1>11 DEF TypeInv

LEMMA TypeStep == TypeInv /\ [Next]_vars => TypeInv'
BY OccurrenceStep, RemoteStep, OutboxStep, MediaStep, PurseStep, TableStep, DeliveryStep, SenderStep,
   ChannelStep, MonitorStep, WatchStep DEF TypeInv

\* Whatever is done to the service and whenever it crashes, its tables and what
\* its tasks hold are of their types: no delivery is tried more than MaxTries
\* times (update_job in replica.rs), no failure counter of a channel runs over, an
\* edit that was read is written to the channel that it was read of
\* (channel_update), a round never has a message that is not in the table
\* (notifications.rs).
THEOREM AutomationTypeCorrect == Spec => []TypeOK
<1>1. TypeInv => TypeOK
  <2> SUFFICES ASSUME TypeInv PROVE TypeOK
    OBVIOUS
  <2>1. store.jobs \in [Job -> Row] /\ store.requests = {} /\ up \in BOOLEAN /\ budget \in [Disturbances -> Nat]
    BY DEF TypeInv, OccurrenceInv, StoreType, TableInv, PurseInv
  <2>2. ReplicaTypeOK
    <3>1. /\ fanning \subseteq Job /\ replica \in [Job -> Delivery]
          /\ courier.phase \in Calls \cup {"idle", "cancel", "save"}
      BY DEF TypeInv, TableInv, DeliveryInv
    <3>2. remote.jobs \in [Job -> Row] /\ remote.requests \subseteq Job \X Job
      BY DEF TypeInv, RemoteInv, StoreType, Keyed
    <3>3. CASE courier = Resting
      BY <3>1, <3>2, <3>3, ReplicaAssumption DEF ReplicaTypeOK, Resting, NoDelivery, Delivery
    <3>4. CASE courier # Resting
      BY <3>1, <3>2, <3>4 DEF ReplicaTypeOK, TypeInv, DeliveryInv, RemoteInv, CourierInv
    <3> QED
      BY <3>3, <3>4
  <2>3. OutboxTypeOK
    <3>1. HonestBox(outbox) /\ SenderType /\ targets \subseteq Target /\ SenderInv
          /\ (sender.phase # "idle" => sender.batch # {})
      BY DEF TypeInv, OutboxInv
    <3>2. PICK A : outbox \in Seq(MessageOf(A))
      BY <3>1 DEF HonestBox
    <3>3. \A n \in 1..Len(outbox) : outbox[n] \in MessageOf(A)
      BY <3>2
    <3> QED
      BY <3>1, <3>3 DEF OutboxTypeOK, SenderInv, SenderType, MessageOf
  <2>4. MonitorTypeOK
    BY DEF TypeInv, MonitorTypeOK, MonitorInv, ChannelInv, ChannelRow, OccurrenceInv, ScanInv
  <2>5. AlertsTypeOK
    BY DEF TypeInv, AlertsTypeOK, MediaInv, WatchInv, HistoryInv
  <2> QED
    BY <2>1, <2>2, <2>3, <2>4, <2>5 DEF TypeOK
<1> QED
  BY <1>1, TypeInit, TypeStep, PTL DEF Spec


----------------------------------------------------------------------------
\* What is followed stays followed. The loop's copy of a delivery is the delivery
\* itself for as long as its row stands, for nobody else writes one that is not
\* empty; a row that is gone does not come back, so the copy cannot meet another.

FollowInv ==
  courier.phase # "idle" =>
    /\ ~Done(courier.copy) /\ store.jobs[courier.job].state # "absent"
    /\ Stands(store, courier.job) => replica[courier.job] = courier.copy
    /\ courier.copy.remote # 0 /\ (courier.phase \in Calls \/ courier.ok) => courier.at = courier.copy.remote
\* A delivery stays what it became: the job that is followed is not exchanged, and
\* a delivery that is over is not begun again.
DeliveriesKept ==
  \A j \in Job : Stands(store', j) =>
    /\ replica[j].remote # 0 => replica'[j].remote = replica[j].remote
    /\ replica[j] # NoDelivery /\ Done(replica[j]) => replica'[j] = replica[j]
GoneStays(s, t) == \A j \in Job : s.jobs[j].state = "deleted" => t.jobs[j].state = "deleted"

LEMMA StoreGoesOn == OccurrenceInv /\ [Next]_vars => Persist(store, store') /\ GoneStays(store, store')
<1> SUFFICES ASSUME OccurrenceInv, [Next]_vars PROVE Persist(store, store') /\ GoneStays(store, store')
  OBVIOUS
<1>1. StoreType(store)
  BY DEF OccurrenceInv
<1>2. ASSUME NEW request \in Request, NEW automatic, NEW occurrence,
             NEW a \in Answers(store, request, automatic, 0, occurrence), store' = a.store
      PROVE  Persist(store, store') /\ GoneStays(store, store')
  <2>1. Persist(store, a.store) /\ \A j \in Job : store.jobs[j].state # "absent" => a.store.jobs[j] = store.jobs[j]
    BY <1>1, <1>2, AnsweredHere
  <2> QED
    BY <1>2, <2>1 DEF GoneStays
<1>3. CASE UNCHANGED store
  BY <1>1, <1>3 DEF Persist, GoneStays
<1>4. CASE AddWindowJob
  <2> DEFINE occurrence == {scan.key}
             automatic == ~scan.repeat
  <2>1. UNCHANGED store \/ \E a \in Answers(store, scan.request, automatic, 0, occurrence) : store' = a.store
    BY <1>4 DEF AddWindowJob
  <2>2. scan.request \in Request
    BY <1>4 DEF AddWindowJob, Scans, OccurrenceInv, ScanInv
  <2> HIDE DEF occurrence, automatic
  <2> QED
    BY <1>2, <1>3, <2>1, <2>2
<1>5. ASSUME NEW request \in UserRequest, Record(request) PROVE Persist(store, store') /\ GoneStays(store, store')
  <2> DEFINE automatic == FALSE
             none == {}
  <2>1. (\E a \in Answers(store, request, automatic, 0, none) : store' = a.store) /\ request \in Request
    BY <1>5 DEF Record, UserRequest
  <2> HIDE DEF automatic, none
  <2> QED
    BY <1>2, <2>1
<1>6. CASE LocalSteps
  <2>1. JobSteps /\ Persist(store, store')
    BY <1>1, <1>6, JobStepsPersist DEF LocalSteps
  <2>2. PICK j \in Job : Stands(store, j) /\ ((\E x : store' = SetJob(store, j, x)) \/ store' = Deleted(store, j))
    BY <2>1 DEF JobSteps, Deadline, Stop, Retry, Recover, Delete, Capture, Set
  <2>3. \A k \in Job \ {j} : store'.jobs[k] = store.jobs[k]
    <3>1. ASSUME NEW x, store' = SetJob(store, j, x) PROVE \A k \in Job \ {j} : store'.jobs[k] = store.jobs[k]
      BY <1>1, <3>1 DEF StoreType, SetJob
    <3> QED
      BY <1>1, <2>2, <3>1, DeletedPersists
  <2> QED
    BY <2>1, <2>2, <2>3 DEF GoneStays, Stands
<1>7. CASE Start
  <2>1. Persist(store, store')
    BY <1>1, <1>7, StartPersists
  <2>2. \A j \in Job : store'.jobs[j] = Recovered(store.jobs[j])
    BY <1>1, <1>7 DEF Start, StoreType
  <2> QED
    BY <2>1, <2>2 DEF GoneStays, Recovered
<1>8. CASE Replicas \/ Notifications \/ Alerts \/ Crash \/ UNCHANGED vars \/ (Channels /\ ~AddWindowJob)
  <2>1. CASE Replicas
    BY <1>3, <2>1 DEF Replicas, RemoteSteps, Fanout, Courier, Take, CancelUndelivered, Call, CallFails,
                Save, Writes, storeVars
  <2>2. CASE Channels /\ ~AddWindowJob
    BY <1>3, <2>2 DEF Channels, ChannelSteps, Scan, BeginScan, List, TakeUrl, Inspect, InspectFails, ReadLedger,
                FanoutScanned, CompleteScan, ReadForEdit, WriteEdit, DeleteChannel, AddChannel,
                SiteChanges, Tick, Quietly, Aside
  <2>3. CASE Notifications
    BY <1>3, <2>3 DEF Notifications, OutboxSteps, Deliver, ReadDue, Arrives, NotSent, Finish, DueAgain,
                Configure, SendAgain, MayRun
  <2> QED
    BY <1>3, <1>8, <2>1, <2>2, <2>3 DEF Alerts, Watch, Look, Reconcile, Tell, Crash, vars
<1> QED
  BY <1>4, <1>5, <1>6, <1>7, <1>8 DEF Next, Jobs

\* A call about a job that is known there is answered with that job.
LEMMA HandledThere ==
  ASSUME courier.phase \in Calls, courier.at # 0, NEW a \in Handled
  PROVE  a.job = courier.at
<1>1. CASE courier.phase = "find"
  BY <1>1 DEF Handled, Found, There, Answer
<1>2. CASE courier.phase = "stop"
  <2>1. PICK k \in There : \E x \in Stopped(remote.jobs[k]) : a = Answer(SetJob(remote, k, x), k)
    BY <1>2 DEF Handled, StopHandled
  <2> QED
    BY <2>1 DEF There, Answer
<1>3. CASE courier.phase \in {"plan", "deadline"}
  <2>1. PICK k \in There : \E x : a = Answer(SetJob(remote, k, x), k)
    BY <1>3 DEF Handled, DeadlineHandled
  <2> QED
    BY <2>1 DEF There, Answer
<1> QED
  BY <1>1, <1>2, <1>3 DEF Calls

LEMMA FollowStep ==
  OccurrenceInv /\ RemoteInv /\ DeliveryInv /\ FollowInv /\ [Next]_vars => FollowInv' /\ DeliveriesKept
<1> SUFFICES ASSUME OccurrenceInv, RemoteInv, DeliveryInv, FollowInv, [Next]_vars
             PROVE  FollowInv' /\ DeliveriesKept
  OBVIOUS
<1>1. \A j \in Job : store.jobs[j].state # "absent" =>
        store'.jobs[j].state # "absent" /\ (Stands(store', j) => Stands(store, j))
  BY StoreGoesOn DEF Persist, GoneStays, Stands
<1>2. courier.phase # "idle" => courier.job \in Job
  BY DEF RemoteInv, CourierInv
<1>3. Done(NoDelivery) /\ NoDelivery.remote = 0
  BY DEF Done, NoDelivery
<1>4. ASSUME UNCHANGED courier,
             \A j \in Job : Stands(store', j) /\ replica[j] # NoDelivery => replica'[j] = replica[j]
      PROVE  FollowInv' /\ DeliveriesKept
  <2>1. DeliveriesKept
    BY <1>3, <1>4 DEF DeliveriesKept
  <2>2. FollowInv'
    <3> SUFFICES ASSUME courier.phase # "idle"
                 PROVE  /\ store'.jobs[courier.job].state # "absent"
                        /\ Stands(store', courier.job) => replica'[courier.job] = courier.copy
      BY <1>4 DEF FollowInv
    <3>1. courier.job \in Job /\ ~Done(courier.copy) /\ store.jobs[courier.job].state # "absent"
          /\ (Stands(store, courier.job) => replica[courier.job] = courier.copy)
      BY <1>2 DEF FollowInv
    <3> QED
      BY <1>1, <1>3, <1>4, <3>1
  <2> QED
    BY <2>1, <2>2
<1>5. CASE UNCHANGED <<replica, courier>>
  BY <1>4, <1>5
<1>6. ASSUME NEW j, Enqueue(j), UNCHANGED courier PROVE FollowInv' /\ DeliveriesKept
  <2>1. UNCHANGED replica \/ (replica[j] = NoDelivery /\ replica' = [replica EXCEPT ![j].state = "pending"])
    BY <1>6 DEF Enqueue
  <2>2. \A k \in Job : replica[k] # NoDelivery => replica'[k] = replica[k]
    BY <2>1 DEF DeliveryInv
  <2> QED
    BY <1>4, <1>6, <2>2
<1>7. CASE LocalSteps
  <2>1. UNCHANGED courier /\ \A j \in Job : Stands(store', j) => replica'[j] = replica[j]
    BY <1>7 DEF LocalSteps, Stands
  <2> QED
    BY <1>4, <2>1
<1>8. ASSUME UNCHANGED <<store, replica>>, FollowInv' PROVE FollowInv' /\ DeliveriesKept
  BY <1>8 DEF DeliveriesKept
<1>9. ASSUME NEW j \in Job, Take(j) PROVE FollowInv' /\ DeliveriesKept
  <2>1. /\ UNCHANGED <<store, replica>> /\ Stands(store, j) /\ ~Done(replica[j])
        /\ courier'.copy = replica[j] /\ courier'.job = j /\ courier'.at = replica[j].remote
    BY <1>9 DEF Take, storeVars
  <2>2. FollowInv'
    BY <2>1 DEF FollowInv, Stands
  <2> QED
    BY <1>8, <2>1, <2>2
<1>10. ASSUME Fails, courier.phase # "idle", UNCHANGED <<store, replica>> PROVE FollowInv' /\ DeliveriesKept
  <2>1. /\ courier'.phase = "save" /\ courier'.ok = FALSE
        /\ courier'.copy = courier.copy /\ courier'.job = courier.job
    BY <1>10 DEF Fails, RemoteInv, CourierInv, CourierType
  <2>2. FollowInv'
    BY <1>10, <2>1 DEF FollowInv, Calls, Stands
  <2> QED
    BY <1>8, <1>10, <2>2
<1>11. CASE Call
  <2>1. PICK a \in Handled :
          \/ courier' = [courier EXCEPT !.at = a.job, !.seen = a.store.jobs[a.job], !.ok = TRUE,
                                        !.phase = After(a.store.jobs[a.job])]
          \/ Fails
    BY <1>11 DEF Call
  <2>2. courier.phase \in Calls /\ courier.phase # "idle" /\ UNCHANGED <<store, replica>>
    BY <1>11 DEF Call, Calls, storeVars
  <2>3. CASE ~Fails
    <3> DEFINE seen == a.store.jobs[a.job]
               phase == After(seen)
    <3>1. courier' = [courier EXCEPT !.at = a.job, !.seen = seen, !.ok = TRUE, !.phase = phase]
      BY <2>1, <2>3
    <3> HIDE DEF seen, phase
    <3>2. courier'.copy = courier.copy /\ courier'.job = courier.job /\ courier'.at = a.job
      BY <3>1 DEF RemoteInv, CourierInv, CourierType
    <3>3. courier.copy.remote # 0 => a.job = courier.copy.remote
      BY <2>2, HandledThere DEF FollowInv
    <3>4. FollowInv'
      BY <2>2, <3>2, <3>3 DEF FollowInv, Stands
    <3> QED
      BY <1>8, <2>2, <3>4
  <2> QED
    BY <1>10, <2>2, <2>3
<1>12. ASSUME NEW d, Writes(d), courier.phase # "idle",
              courier.copy.remote # 0 => d.remote = courier.copy.remote
       PROVE  FollowInv' /\ DeliveriesKept
  <2>1. /\ courier' = Resting /\ UNCHANGED store
        /\ replica' = IF Stands(store, courier.job) THEN [replica EXCEPT ![courier.job] = d] ELSE replica
    BY <1>12 DEF Writes, storeVars
  <2>2. FollowInv'
    BY <2>1 DEF FollowInv, Resting
  <2>3. Stands(store, courier.job) => replica[courier.job] = courier.copy /\ ~Done(courier.copy)
    BY <1>12 DEF FollowInv
  <2>4. DeliveriesKept
    BY <1>2, <1>12, <2>1, <2>3 DEF DeliveriesKept, DeliveryInv
  <2> QED
    BY <2>2, <2>4
<1>13. courier.phase # "idle" => courier.copy \in Delivery
  BY DEF DeliveryInv
<1>14. CASE CancelUndelivered
  <2>1. courier.phase # "idle" /\ Writes([courier.copy EXCEPT !.state = "cancelled"])
    BY <1>14 DEF CancelUndelivered
  <2>2. [courier.copy EXCEPT !.state = "cancelled"].remote = courier.copy.remote
    BY <1>13, <2>1 DEF Delivery
  <2> QED
    BY <1>12, <2>1, <2>2
<1>15. CASE Save
  <2>1. courier.phase # "idle"
    BY <1>15 DEF Save
  <2>2. CASE courier.ok
    <3> DEFINE d == [state |-> Followed, remote |-> courier.at, tries |-> 0]
    <3>1. Writes(d) /\ d.remote = courier.at
      BY <1>15, <2>2 DEF Save
    <3>2. courier.copy.remote # 0 => courier.at = courier.copy.remote
      BY <2>1, <2>2 DEF FollowInv
    <3> HIDE DEF d
    <3> QED
      BY <1>12, <2>1, <3>1, <3>2
  <2>3. CASE ~courier.ok
    <3> DEFINE tries == courier.copy.tries + 1
               state == IF tries >= MaxTries THEN "failed" ELSE "retrying"
               d == [courier.copy EXCEPT !.tries = tries, !.state = state]
    <3>1. Writes(d)
      BY <1>15, <2>3 DEF Save
    <3> HIDE DEF tries, state
    <3>2. d.remote = courier.copy.remote
      BY <1>13, <2>1 DEF Delivery
    <3> HIDE DEF d
    <3> QED
      BY <1>12, <2>1, <3>1, <3>2
  <2> QED
    BY <2>2, <2>3
<1>16. CASE CallFails
  BY <1>10, <1>16 DEF CallFails, Calls, storeVars
<1>17. CASE Replicas
  <2>1. \/ RemoteSteps \/ CancelUndelivered \/ Call \/ CallFails \/ Save
        \/ \E j \in Job : Fanout(j) \/ Take(j)
    BY <1>17 DEF Replicas, Courier
  <2>2. RemoteSteps => UNCHANGED <<replica, courier>>
    BY DEF RemoteSteps
  <2>3. \A j \in Job : Fanout(j) => Enqueue(j) /\ UNCHANGED courier
    BY DEF Fanout
  <2> QED
    BY <1>5, <1>6, <1>9, <1>11, <1>14, <1>15, <1>16, <2>1, <2>2, <2>3
<1>18. CASE Channels
  <2>1. UNCHANGED courier /\ (UNCHANGED replica \/ Enqueue(scan.job))
    BY <1>18 DEF Channels, ChannelSteps, Scan, BeginScan, List, TakeUrl, Inspect, InspectFails, ReadLedger,
                AddWindowJob, FanoutScanned, CompleteScan, ReadForEdit, WriteEdit, DeleteChannel,
                AddChannel, SiteChanges, Tick, Quietly, Aside, others
  <2> QED
    BY <1>5, <1>6, <2>1
<1>19. CASE Crash
  <2>1. UNCHANGED <<store, replica>> /\ courier'.phase = "idle"
    BY <1>19 DEF Crash, Resting
  <2> QED
    BY <1>8, <2>1 DEF FollowInv
<1>20. CASE Jobs
  <2>1. LocalSteps \/ UNCHANGED <<replica, courier>>
    BY <1>20 DEF Jobs, Record
  <2> QED
    BY <1>5, <1>7, <2>1
<1>21. CASE Notifications \/ Alerts \/ Start \/ UNCHANGED vars
  <2>1. UNCHANGED <<replica, courier>>
    BY <1>21 DEF Notifications, Alerts, Watch, Look, Reconcile, Tell, Start, vars, replicaVars
  <2> QED
    BY <1>5, <2>1
<1> QED
  BY <1>17, <1>18, <1>19, <1>20, <1>21 DEF Next

\* The job that a delivery follows on the other computer is never exchanged for
\* another, and a delivery that is over is never begun again, as long as its row is
\* there: the loop's write of the whole delivery after its remote calls takes
\* nothing back (run in replica.rs, enqueue_replica).
THEOREM DeliveriesAreFollowedForGood == Spec => [][DeliveriesKept]_<<store, replica>>
<1>1. TypeInv /\ FollowInv /\ [Next]_vars => (TypeInv /\ FollowInv)' /\ [DeliveriesKept]_<<store, replica>>
  BY TypeStep, FollowStep DEF TypeInv
<1>2. Init => TypeInv /\ FollowInv
  BY TypeInit DEF Init, ReplicaInit, FollowInv, Resting
<1> QED
  BY <1>1, <1>2, PTL DEF Spec


=============================================================================
