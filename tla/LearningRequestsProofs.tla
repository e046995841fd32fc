------------------------- MODULE LearningRequestsProofs -------------------------
(***************************************************************************)
(* Safety of LearningRequests, for any numbers of requests and              *)
(* conversations and any limits of the registry.  Two things have to be     *)
(* found: that trimming and expiry only take entries that have ended        *)
(* (RetiredAreOver), and that an entry, its permit, its claim and the task  *)
(* that will end it live and die together (EntriesAreHeld, ClaimsMatch).    *)
(***************************************************************************)
EXTENDS LearningRequests, SequenceTheorems, TLAPS

\* The queue of ended entries holds each of them once, and no live one.
RetiredAreOver ==
    /\ \A i \in 1..Len(retired) : status[retired[i]] \in Terminal
    /\ \A i, j \in 1..Len(retired) : retired[i] = retired[j] => i = j

\* A live entry has its permit and a task that has not returned; a call that has not
\* reached the registry has no entry.
EntriesAreHeld ==
    \A r \in Request :
        /\ permit[r] <=> Live(r)
        /\ Live(r) => at[r] # "over"
        /\ at[r] \in {"idle", "prepared"} => status[r] = "absent"

\* The claims are the targets of the live entries, at most one for a conversation.
ClaimsMatch ==
    /\ \A c \in Conversation, r \in Request : <<c, r>> \in claims <=> Live(r) /\ target[r] = c
    /\ \A r, s \in Request :
          Live(r) /\ Live(s) /\ target[r] = target[s] /\ target[r] # Fresh => r = s

Inv ==
    /\ TypeOK
    /\ RetiredAreOver
    /\ EntriesAreHeld
    /\ ClaimsMatch
    /\ DeletionIsAlone
    /\ MaintenanceIsAlone

-----------------------------------------------------------------------------
(* What the parts of the registry do.                                       *)

\* An entry stays as it is, or it had ended and is collected.
Fades(x) == status'[x] = status[x] \/ (status[x] \in Terminal /\ status'[x] = "absent")

\* Entries fade, one of them being set to s before.
Sets(r, s) ==
    /\ status' \in [Request -> Status]
    /\ status'[r] = s
    /\ \A x \in Request \ {r} : Fades(x)

\* What remains of the queue of ended entries is sound.
RetiredStaySound ==
    /\ retired' \in Seq(Request) /\ Len(retired') <= MaxRetained
    /\ RetiredAreOver'

\* terminal, release_conversation and trim_terminal_entries take nothing but ended entries.
LEMMA EndEffect ==
    ASSUME TypeOK, RetiredAreOver, NEW r \in Request, NEW s \in Terminal, Live(r), End(r, s)
    PROVE  Sets(r, s) /\ RetiredStaySound
<1>1. \A i \in 1..Len(retired) : retired[i] \in Request /\ retired[i] # r
    <2>1. \A i \in 1..Len(retired) : retired[i] \in Request
        BY SMT DEF TypeOK
    <2>2. status[r] \notin Terminal
        BY DEF Live, Terminal
    <2> QED BY <2>1, <2>2 DEF RetiredAreOver
<1> DEFINE ended == Append(retired, r)
<1>2. /\ ended \in Seq(Request) /\ Len(ended) = Len(retired) + 1
      /\ \A i \in 1..Len(ended) : ended[i] = IF i = Len(ended) THEN r ELSE retired[i]
    BY SMT DEF TypeOK
<1>3. CASE Len(ended) > MaxRetained
    <2>1. Len(retired) >= 1 /\ Len(retired) = MaxRetained
        BY <1>2, <1>3, BoundAssumption, SMT DEF TypeOK
    <2>2. Head(ended) = retired[1] /\ Head(ended) # r
        BY <1>1, <1>2, <2>1, SMT
    <2>3. /\ Tail(ended) \in Seq(Request) /\ Len(Tail(ended)) = Len(retired)
          /\ \A i \in 1..Len(retired) : Tail(ended)[i] = IF i = Len(retired) THEN r ELSE retired[i + 1]
        BY <1>2, <2>1, SMT
    <2>4. /\ status' = [x \in Request |-> IF x = r THEN s
                                          ELSE IF x = retired[1] THEN "absent" ELSE status[x]]
          /\ retired' = Tail(ended)
        BY <1>3, <2>2 DEF End
    <2>5. status[retired[1]] \in Terminal
        BY <2>1, SMT DEF TypeOK, RetiredAreOver
    <2>6. Sets(r, s)
        BY <2>4, <2>5, SMT DEF Sets, Fades, TypeOK, Status
    <2>7. RetiredAreOver'
        <3>1. \A i \in 1..Len(retired') : status'[retired'[i]] \in Terminal
            <4> SUFFICES ASSUME NEW i \in 1..Len(retired') PROVE status'[retired'[i]] \in Terminal
                OBVIOUS
            <4>1. CASE i = Len(retired)
                BY <4>1, <2>1, <2>3, <2>4
            <4>2. CASE i # Len(retired)
                <5>1. i + 1 \in 1..Len(retired) /\ retired'[i] = retired[i + 1]
                    BY <4>2, <2>1, <2>3, <2>4, SMT
                <5>2. retired[i + 1] # retired[1]
                    BY <5>1, <2>1, SMT DEF RetiredAreOver
                <5> QED BY <5>1, <5>2, <1>1, <2>4 DEF RetiredAreOver
            <4> QED BY <4>1, <4>2
        <3>2. \A i, j \in 1..Len(retired') : retired'[i] = retired'[j] => i = j
            BY <1>1, <2>1, <2>3, <2>4, SMT DEF RetiredAreOver
        <3> QED BY <3>1, <3>2 DEF RetiredAreOver
    <2> QED BY <2>1, <2>3, <2>4, <2>6, <2>7 DEF RetiredStaySound
<1>4. CASE ~(Len(ended) > MaxRetained)
    <2>1. status' = [x \in Request |-> IF x = r THEN s ELSE status[x]] /\ retired' = ended
        BY <1>4 DEF End
    <2>2. Sets(r, s)
        BY <2>1, SMT DEF Sets, Fades, TypeOK, Status
    <2>3. RetiredAreOver'
        <3>1. s \in Terminal /\ status[r] \notin Terminal
            BY DEF Live, Terminal
        <3>2. ASSUME NEW i \in 1..Len(ended) PROVE status'[ended[i]] \in Terminal
            <4>1. CASE i = Len(ended)
                BY <4>1, <1>2, <2>1, <3>1
            <4>2. CASE i # Len(ended)
                <5>1. i \in 1..Len(retired) /\ ended[i] = retired[i]
                    BY <4>2, <1>2, SMT DEF TypeOK
                <5>2. retired[i] \in Request /\ retired[i] # r /\ status[retired[i]] \in Terminal
                    BY <5>1, <1>1 DEF RetiredAreOver
                <5> QED BY <5>1, <5>2, <2>1
            <4> QED BY <4>1, <4>2
        <3>3. ASSUME NEW i \in 1..Len(ended), NEW j \in 1..Len(ended), ended[i] = ended[j] PROVE i = j
            BY <1>1, <1>2, <3>3, SMT DEF RetiredAreOver, TypeOK
        <3> QED BY <2>1, <3>2, <3>3 DEF RetiredAreOver
    <2>4. Len(ended) <= MaxRetained
        BY <1>2, <1>4, BoundAssumption, SMT DEF TypeOK
    <2> QED BY <1>2, <2>1, <2>2, <2>3, <2>4 DEF RetiredStaySound
<1> QED BY <1>3, <1>4

\* Collecting the n oldest ended entries.
Expired(n, x) == \E i \in 1..n : retired[i] = x

\* gc_locked takes nothing but ended entries, and the queue loses the same ones.
LEMMA ExpiryEffect ==
    ASSUME TypeOK, RetiredAreOver, NEW n \in 0..Len(retired)
    PROVE  /\ Without(n) = [x \in Request |-> IF Expired(n, x) THEN "absent" ELSE status[x]]
           /\ \A x \in Request : Expired(n, x) => status[x] \in Terminal
           /\ SubSeq(retired, n + 1, Len(retired)) \in Seq(Request)
           /\ Len(SubSeq(retired, n + 1, Len(retired))) = Len(retired) - n
           /\ \A i \in 1..(Len(retired) - n) :
                 /\ SubSeq(retired, n + 1, Len(retired))[i] = retired[i + n]
                 /\ ~Expired(n, retired[i + n])
                 /\ status[retired[i + n]] \in Terminal
<1>1. /\ SubSeq(retired, 1, n) \in Seq(Request) /\ Len(SubSeq(retired, 1, n)) = n
      /\ \A i \in 1..n : SubSeq(retired, 1, n)[i] = retired[i]
    BY SMT DEF TypeOK
<1>2. ToSet(SubSeq(retired, 1, n)) = {retired[i] : i \in 1..n}
    <2>1. DOMAIN SubSeq(retired, 1, n) = 1..n
        BY <1>1, LenProperties
    <2> QED BY <1>1, <2>1 DEF ToSet
<1>3. \A x : x \in ToSet(SubSeq(retired, 1, n)) <=> Expired(n, x)
    BY <1>2 DEF Expired
<1>4. Without(n) = [x \in Request |-> IF Expired(n, x) THEN "absent" ELSE status[x]]
    BY <1>3 DEF Without
<1>5. /\ SubSeq(retired, n + 1, Len(retired)) \in Seq(Request)
      /\ Len(SubSeq(retired, n + 1, Len(retired))) = Len(retired) - n
      /\ \A i \in 1..(Len(retired) - n) :
            SubSeq(retired, n + 1, Len(retired))[i] = retired[i + n]
    BY SMT DEF TypeOK
<1>6. \A i \in 1..(Len(retired) - n) :
         /\ ~Expired(n, retired[i + n])
         /\ status[retired[i + n]] \in Terminal
    BY SMT DEF RetiredAreOver, Expired, TypeOK
<1>7. \A x \in Request : Expired(n, x) => status[x] \in Terminal
    BY SMT DEF RetiredAreOver, Expired, TypeOK
<1> QED BY <1>4, <1>5, <1>6, <1>7

-----------------------------------------------------------------------------
(* Steps of one kind keep the invariant in the same way.                    *)

Ground == /\ target \in [Request -> Conversation \cup {Fresh}]
          /\ expected \in [Request -> Nat]
          /\ exists \subseteq Conversation
          /\ answers \in [Conversation -> Seq(Request)]
          /\ opened \subseteq Request
          /\ down \in BOOLEAN
          /\ deletion \in [Conversation -> Deletion]
          /\ exclusive \in BOOLEAN
          /\ commit \in [Request -> {"none", "started", "irrevocable"}]

\* A task or a call goes on; it returns only when its entry has ended.
Advances ==
    \A r \in Request : at'[r] # at[r] =>
        /\ at[r] \notin {"idle", "over"}
        /\ at'[r] \notin {"idle", "prepared"}
        /\ at'[r] = "over" => ~Live(r)'

\* A conversation's deletion begins only where no request claims it.
DeletionsBegin ==
    \A c \in Conversation :
        deletion'[c] # "none" => deletion[c] # "none" \/ \A r \in Request : <<c, r>> \notin claims

\* A step that leaves the registry and the targets alone.
LEMMA QuietStep ==
    ASSUME Inv, UNCHANGED <<status, permit, claims, retired, target>>,
           Ground', at' \in [Request -> Location], Advances, DeletionsBegin,
           exclusive' => \A r \in Request : at[r] \in {"idle", "over"} /\ at'[r] = at[r]
    PROVE  Inv'
<1>1. TypeOK'
    BY DEF Inv, TypeOK, Ground
<1>2. RetiredAreOver'
    BY DEF Inv, RetiredAreOver
<1>3. EntriesAreHeld'
    <2> SUFFICES ASSUME NEW r \in Request
                 PROVE  /\ permit'[r] <=> Live(r)'
                        /\ Live(r)' => at'[r] # "over"
                        /\ at'[r] \in {"idle", "prepared"} => status'[r] = "absent"
        BY DEF EntriesAreHeld
    <2>1. /\ permit[r] <=> Live(r)
          /\ Live(r) => at[r] # "over"
          /\ at[r] \in {"idle", "prepared"} => status[r] = "absent"
        BY DEF Inv, EntriesAreHeld
    <2>2. Live(r)' <=> Live(r)
        BY DEF Live
    <2>3. permit'[r] = permit[r] /\ status'[r] = status[r]
        OBVIOUS
    <2>4. CASE at'[r] = at[r]
        BY <2>1, <2>2, <2>3, <2>4
    <2>5. CASE at'[r] # at[r]
        <3>1. at'[r] \notin {"idle", "prepared"} /\ (at'[r] = "over" => ~Live(r)')
            BY <2>5 DEF Advances
        <3> QED BY <2>1, <2>2, <2>3, <3>1
    <2> QED BY <2>4, <2>5
<1>4. ClaimsMatch'
    BY SMT DEF Inv, ClaimsMatch, Live
<1>5. DeletionIsAlone'
    <2> SUFFICES ASSUME NEW r \in Request, Live(r)', target'[r] # Fresh
                 PROVE  deletion'[target[r]] = "none"
        BY DEF DeletionIsAlone
    <2>1. Live(r) /\ target[r] \in Conversation
        BY SMT DEF Live, Inv, TypeOK
    <2>2. <<target[r], r>> \in claims /\ deletion[target[r]] = "none"
        BY <2>1, FreshAssumption DEF Inv, ClaimsMatch, DeletionIsAlone
    <2> QED BY <2>1, <2>2 DEF DeletionsBegin
<1>6. MaintenanceIsAlone'
    BY SMT DEF Inv, MaintenanceIsAlone
<1> QED BY <1>1, <1>2, <1>3, <1>4, <1>5, <1>6 DEF Inv

\* An entry that was live ends, and its task goes on or returns.
LEMMA EndStep ==
    ASSUME Inv, NEW r \in Request, NEW s \in Terminal, Live(r), End(r, s),
           at' = at \/ at' = [at EXCEPT ![r] = "over"], at[r] \notin {"idle", "over"},
           UNCHANGED <<deletion, target, expected, database, exclusive, down>>
    PROVE  Inv'
<1>1. Sets(r, s) /\ RetiredStaySound
    BY EndEffect DEF Inv
<1>2. /\ permit' = [permit EXCEPT ![r] = FALSE]
      /\ claims' = {cr \in claims : cr[2] # r}
      /\ UNCHANGED commit
    BY DEF End, Release
<1>3. at' \in [Request -> Location] /\ \A x \in Request \ {r} : at'[x] = at[x]
    <2>1. at \in [Request -> Location] /\ "over" \in Location
        BY DEF Inv, TypeOK, Location
    <2> QED BY <2>1
<1>4. \A x \in Request : Live(x)' <=> Live(x) /\ x # r
    BY <1>1, SMT DEF Sets, Fades, Live, Terminal
<1>5. TypeOK'
    <2>1. permit' \in [Request -> BOOLEAN] /\ claims' \subseteq Conversation \X Request
        BY <1>2 DEF Inv, TypeOK
    <2> QED BY <1>1, <1>2, <1>3, <2>1 DEF Inv, TypeOK, Sets, RetiredStaySound, database
<1>6. EntriesAreHeld'
    <2>1. \A x \in Request : permit'[x] <=> Live(x)'
        BY <1>2, <1>4, SMT DEF Inv, TypeOK, EntriesAreHeld
    <2>2. \A x \in Request : Live(x)' => at'[x] # "over"
        BY <1>3, <1>4 DEF Inv, EntriesAreHeld
    <2>3. \A x \in Request : at'[x] \in {"idle", "prepared"} => status'[x] = "absent"
        <3>1. at[r] \notin {"idle", "prepared"}
            BY SMT DEF Inv, EntriesAreHeld, Live
        <3>2. at'[r] \notin {"idle", "prepared"}
            BY <3>1, SMT DEF Inv, TypeOK
        <3> QED BY <1>1, <1>3, <3>2 DEF Sets, Fades, Inv, EntriesAreHeld
    <2> QED BY <2>1, <2>2, <2>3 DEF EntriesAreHeld
<1>7. ClaimsMatch'
    <2>1. \A c \in Conversation, x \in Request :
             <<c, x>> \in claims' <=> <<c, x>> \in claims /\ x # r
        BY <1>2
    <2>2. \A c \in Conversation, x \in Request :
             <<c, x>> \in claims' <=> Live(x)' /\ target'[x] = c
        BY <1>4, <2>1 DEF Inv, ClaimsMatch
    <2> QED BY <1>4, <2>2 DEF Inv, ClaimsMatch
<1>8. DeletionIsAlone' /\ MaintenanceIsAlone'
    BY <1>3, <1>4, SMT DEF Inv, DeletionIsAlone, MaintenanceIsAlone
<1> QED BY <1>1, <1>5, <1>6, <1>7, <1>8 DEF Inv, RetiredStaySound

\* The n oldest ended entries expire, and nothing else happens in the registry.
LEMMA ExpiryStep ==
    ASSUME Inv, NEW n \in 0..Len(retired), Collect(n),
           UNCHANGED <<commit, permit, claims, at, target, expected, database, exclusive, down>>,
           deletion' \in [Conversation -> Deletion], DeletionsBegin
    PROVE  Inv'
<1> DEFINE rest == SubSeq(retired, n + 1, Len(retired))
<1>1. /\ status' = [x \in Request |-> IF Expired(n, x) THEN "absent" ELSE status[x]]
      /\ \A x \in Request : Expired(n, x) => status[x] \in Terminal
      /\ retired' = rest /\ rest \in Seq(Request) /\ Len(rest) = Len(retired) - n
      /\ \A i \in 1..(Len(retired) - n) :
            /\ rest[i] = retired[i + n]
            /\ ~Expired(n, retired[i + n])
            /\ status[retired[i + n]] \in Terminal
    BY ExpiryEffect DEF Inv, Collect
<1>2. \A x \in Request : Fades(x)
    BY <1>1 DEF Fades
<1>3. \A x \in Request : Live(x)' <=> Live(x)
    BY <1>2, SMT DEF Fades, Live, Terminal
<1>4. TypeOK'
    <2>1. status' \in [Request -> Status]
        BY <1>1 DEF Inv, TypeOK, Status
    <2>2. Len(rest) <= MaxRetained
        BY <1>1, BoundAssumption, SMT DEF Inv, TypeOK
    <2> QED BY <1>1, <2>1, <2>2 DEF Inv, TypeOK, database
<1>5. RetiredAreOver'
    <2>1. Len(retired) \in Nat /\ \A i \in 1..Len(retired) : retired[i] \in Request
        BY SMT DEF Inv, TypeOK
    <2>2. \A i \in 1..Len(rest) : i + n \in 1..Len(retired) /\ i \in 1..(Len(retired) - n)
        BY <1>1, <2>1, SMT
    <2>3. \A i \in 1..Len(rest) : status'[rest[i]] = status[retired[i + n]]
        BY <1>1, <2>1, <2>2
    <2>4. \A i \in 1..Len(rest) : status'[rest[i]] \in Terminal
        BY <1>1, <2>2, <2>3
    <2>5. \A i, j \in 1..Len(rest) : rest[i] = rest[j] => i = j
        <3> SUFFICES ASSUME NEW i \in 1..Len(rest), NEW j \in 1..Len(rest), rest[i] = rest[j]
                     PROVE  i = j
            OBVIOUS
        <3>1. retired[i + n] = retired[j + n]
            BY <1>1, <2>2
        <3>2. i + n = j + n
            BY <2>2, <3>1 DEF Inv, RetiredAreOver
        <3> QED BY <3>2, <1>1, <2>1, SMT
    <2> QED BY <1>1, <2>4, <2>5 DEF RetiredAreOver
<1>6. EntriesAreHeld'
    BY <1>2, <1>3, SMT DEF Inv, EntriesAreHeld, Fades
<1>7. ClaimsMatch'
    BY <1>3 DEF Inv, ClaimsMatch
<1>8. DeletionIsAlone'
    <2> SUFFICES ASSUME NEW r \in Request, Live(r)', target'[r] # Fresh
                 PROVE  deletion'[target[r]] = "none"
        BY DEF DeletionIsAlone
    <2>1. Live(r) /\ target[r] \in Conversation
        BY <1>3 DEF Inv, TypeOK
    <2>2. <<target[r], r>> \in claims /\ deletion[target[r]] = "none"
        BY <2>1, FreshAssumption DEF Inv, ClaimsMatch, DeletionIsAlone
    <2> QED BY <2>1, <2>2 DEF DeletionsBegin
<1>9. MaintenanceIsAlone'
    BY DEF Inv, MaintenanceIsAlone
<1> QED BY <1>4, <1>5, <1>6, <1>7, <1>8, <1>9 DEF Inv

-----------------------------------------------------------------------------
(* One lemma for each group of actions.                                     *)

\* The starting call before it reaches the registry.
LEMMA PrepareStep == ASSUME Inv, NEW r \in Request, NEW c \in Conversation \cup {Fresh}, Prepare(r, c)
                     PROVE  Inv'
<1>1. /\ target' = [target EXCEPT ![r] = c] /\ at' = [at EXCEPT ![r] = "prepared"]
      /\ UNCHANGED <<status, commit, permit, claims, retired, deletion, exists, answers, opened,
                     exclusive, down>>
      /\ at[r] = "idle" /\ ~exclusive
    BY DEF Prepare, Goto, registry, database
<1>2. status[r] = "absent" /\ ~Live(r)
    BY <1>1 DEF Inv, EntriesAreHeld, Live
<1>3. \A x \in Request : Live(x)' <=> Live(x)
    BY <1>1 DEF Live
<1>4. expected' \in [Request -> Nat]
    <2>1. CASE c = Fresh
        BY <2>1, SMT DEF Prepare, Inv, TypeOK
    <2>2. CASE c # Fresh
        <3>1. Len(answers[c]) \in Nat
            BY <2>2, SMT DEF Inv, TypeOK
        <3> QED BY <2>2, <3>1, SMT DEF Prepare, Inv, TypeOK
    <2> QED BY <2>1, <2>2
<1>5. TypeOK'
    BY <1>1, <1>4 DEF Inv, TypeOK, Location
<1>6. RetiredAreOver'
    BY <1>1 DEF Inv, RetiredAreOver
<1>7. EntriesAreHeld'
    <2> SUFFICES ASSUME NEW x \in Request
                 PROVE  /\ permit'[x] <=> Live(x)'
                        /\ Live(x)' => at'[x] # "over"
                        /\ at'[x] \in {"idle", "prepared"} => status'[x] = "absent"
        BY DEF EntriesAreHeld
    <2>1. CASE x = r
        BY <1>1, <1>2, <1>3, <2>1 DEF Inv, EntriesAreHeld
    <2>2. CASE x # r
        <3>1. at'[x] = at[x]
            BY <1>1, <2>2 DEF Inv, TypeOK
        <3> QED BY <1>1, <1>3, <3>1 DEF Inv, EntriesAreHeld
    <2> QED BY <2>1, <2>2
<1>8. \A x \in Request : Live(x) => target'[x] = target[x]
    BY <1>1, <1>2 DEF Inv, TypeOK
<1>9. ClaimsMatch'
    <2>1. \A d \in Conversation, x \in Request : <<d, x>> \in claims' <=> Live(x)' /\ target'[x] = d
        BY <1>1, <1>3, <1>8 DEF Inv, ClaimsMatch
    <2>2. \A x, y \in Request : Live(x)' /\ Live(y)' /\ target'[x] = target'[y] /\ target'[x] # Fresh => x = y
        BY <1>3, <1>8 DEF Inv, ClaimsMatch
    <2> QED BY <2>1, <2>2 DEF ClaimsMatch
<1>10. DeletionIsAlone' /\ MaintenanceIsAlone'
    BY <1>1, <1>3, <1>8 DEF Inv, DeletionIsAlone, MaintenanceIsAlone
<1> QED BY <1>5, <1>6, <1>7, <1>9, <1>10 DEF Inv

\* A task or a call goes on without touching the registry.
LEMMA TaskStep ==
    ASSUME Inv, NEW r \in Request,
           \/ GiveUp(r) \/ Spawn(r) \/ BeginCommit(r) \/ Write(r)
           \/ StoreFails(r) \/ Authorize(r) \/ CommitAnswer(r)
    PROVE  Inv'
<1>1. /\ UNCHANGED <<status, permit, claims, retired, target, deletion, expected, exists, exclusive, down>>
      /\ \E l \in Location \ {"idle", "prepared"} :
            /\ at' = [at EXCEPT ![r] = l]
            /\ l = "over" => at[r] = "prepared"
      /\ at[r] \notin {"idle", "over"}
    BY DEF GiveUp, Spawn, BeginCommit, Write, StoreFails, Authorize, CommitAnswer, Goto, registry,
           database, Location
<1>2. commit' \in [Request -> {"none", "started", "irrevocable"}]
    BY DEF GiveUp, Spawn, BeginCommit, Write, StoreFails, Authorize, CommitAnswer, registry, Inv, TypeOK
<1>3. answers' \in [Conversation -> Seq(Request)] /\ opened' \subseteq Request
    <2>1. CASE CommitAnswer(r)
        <3>1. CASE target[r] = Fresh
            BY <2>1, <3>1 DEF CommitAnswer, Inv, TypeOK
        <3>2. CASE target[r] # Fresh
            <4>1. target[r] \in Conversation
                BY <3>2 DEF Inv, TypeOK
            <4>2. Append(answers[target[r]], r) \in Seq(Request)
                BY <4>1, SMT DEF Inv, TypeOK
            <4> QED BY <2>1, <3>2, <4>1, <4>2 DEF CommitAnswer, Inv, TypeOK
        <3> QED BY <3>1, <3>2
    <2>2. CASE ~CommitAnswer(r)
        BY <2>2 DEF GiveUp, Spawn, BeginCommit, Write, StoreFails, Authorize, database, Inv, TypeOK
    <2> QED BY <2>1, <2>2
<1>4. at' \in [Request -> Location]
    BY <1>1 DEF Inv, TypeOK
<1>5. Advances
    <2>1. at[r] = "prepared" => ~Live(r)
        BY DEF Inv, EntriesAreHeld, Live
    <2>2. Live(r)' <=> Live(r)
        BY <1>1 DEF Live
    <2> QED BY <1>1, <2>1, <2>2 DEF Advances, Inv, TypeOK
<1>6. ~exclusive
    BY <1>1 DEF Inv, MaintenanceIsAlone
<1>7. DeletionsBegin /\ Ground'
    BY <1>1, <1>2, <1>3 DEF DeletionsBegin, Ground, Inv, TypeOK
<1> QED BY <1>1, <1>4, <1>5, <1>6, <1>7, QuietStep

\* A deletion goes on under its guard, or its guard is dropped.
LEMMA DeletionGoesOn == ASSUME Inv, NEW c \in Conversation, DeletionStep(c) PROVE Inv'
<1>1. /\ UNCHANGED <<registry, target, expected, at, opened, exclusive, down>>
      /\ deletion[c] # "none"
      /\ \E d \in Deletion : deletion' = [deletion EXCEPT ![c] = d]
    BY DEF DeletionStep, LockForDeletion, DeletionFails, CommitDeletion, DropGuard, database, Deletion
<1>2. exists' \subseteq Conversation /\ answers' \in [Conversation -> Seq(Request)]
    <2>1. <<>> \in Seq(Request)
        BY EmptySeq
    <2> QED BY <2>1 DEF DeletionStep, LockForDeletion, DeletionFails, CommitDeletion, DropGuard,
        database, Inv, TypeOK
<1>3. Ground' /\ DeletionsBegin
    BY <1>1, <1>2 DEF registry, Ground, DeletionsBegin, Inv, TypeOK
<1>4. Advances /\ at' \in [Request -> Location]
    BY <1>1 DEF Advances, Inv, TypeOK
<1> QED BY <1>1, <1>3, <1>4, QuietStep DEF registry, Inv, MaintenanceIsAlone

\* Maintenance comes and goes.
LEMMA MaintenanceStep == ASSUME Inv, EnterMaintenance \/ LeaveMaintenance PROVE Inv'
<1>1. /\ UNCHANGED <<registry, deletion, at, target, expected, database, down>>
      /\ exclusive' \in BOOLEAN
      /\ exclusive' => \A r \in Request : ~Holds(r)
    BY DEF EnterMaintenance, LeaveMaintenance
<1>2. Ground' /\ DeletionsBegin /\ Advances /\ at' \in [Request -> Location]
    BY <1>1 DEF registry, database, Ground, DeletionsBegin, Advances, Inv, TypeOK
<1> QED BY <1>1, <1>2, QuietStep DEF registry, Holds

\* An entry that is gone or has ended is left alone, one that is live fails or completes; the
\* task returns.
LEMMA ReturnStep ==
    ASSUME Inv, NEW r \in Request, StartFails(r) \/ StreamFails(r) \/ FailStored(r) \/ Complete(r)
    PROVE  Inv'
<1>1. /\ UNCHANGED <<deletion, target, expected, database, exclusive, down>>
      /\ at' = [at EXCEPT ![r] = "over"]
      /\ at[r] \notin {"idle", "prepared", "over"}
      /\ \/ Live(r) /\ \E s \in Terminal : End(r, s)
         \/ ~Live(r) /\ UNCHANGED registry
    BY DEF StartFails, StreamFails, FailStored, Complete, FailAndReturn, Goto, Terminal
<1>2. CASE Live(r) /\ \E s \in Terminal : End(r, s)
    BY <1>1, <1>2, EndStep
<1>3. CASE ~Live(r) /\ UNCHANGED registry
    <2>1. at' \in [Request -> Location]
        BY <1>1 DEF Inv, TypeOK, Location
    <2>2. Advances
        <3>1. ~Live(r)'
            BY <1>3 DEF Live, registry
        <3> QED BY <1>1, <3>1 DEF Advances, Inv, TypeOK
    <2>3. ~exclusive
        BY <1>1 DEF Inv, MaintenanceIsAlone
    <2>4. DeletionsBegin /\ Ground'
        BY <1>1, <1>3 DEF DeletionsBegin, Ground, registry, database, Inv, TypeOK
    <2> QED BY <1>1, <1>3, <2>1, <2>2, <2>3, <2>4, QuietStep DEF registry
<1> QED BY <1>1, <1>2, <1>3

\* A stop ends a live entry; its task has not returned.
LEMMA CancelStep == ASSUME Inv, NEW r \in Request, Cancel(r) PROVE Inv'
<1>1. Live(r) /\ End(r, "cancelled") /\ at' = at /\ at[r] \notin {"idle", "over"}
    BY DEF Cancel, Revocable, Inv, EntriesAreHeld
<1>2. UNCHANGED <<deletion, target, expected, database, exclusive, down>> /\ "cancelled" \in Terminal
    BY DEF Cancel, Terminal
<1> QED BY <1>1, <1>2, EndStep

\* Reading the registry collects what has expired.
LEMMA LookStep == ASSUME Inv, NEW n, Look(n) PROVE Inv'
<1>1. /\ n \in 0..Len(retired) /\ Collect(n)
      /\ UNCHANGED <<commit, permit, claims, deletion, at, target, expected, database, exclusive, down>>
    BY DEF Look, Collect
<1>2. deletion' \in [Conversation -> Deletion] /\ DeletionsBegin
    BY <1>1 DEF DeletionsBegin, Inv, TypeOK
<1> QED BY <1>1, <1>2, ExpiryStep

\* A deletion is registered when nothing claims its conversation.
LEMMA BeginDeletionStep == ASSUME Inv, NEW c \in Conversation, NEW n, BeginDeletion(c, n) PROVE Inv'
<1>1. /\ n \in 0..Len(retired) /\ Collect(n)
      /\ UNCHANGED <<commit, permit, claims, at, target, expected, database, exclusive, down>>
      /\ deletion' = [deletion EXCEPT ![c] = "guarded"]
      /\ \A r \in Request : <<c, r>> \notin claims
    BY DEF BeginDeletion, Collect, Conflict
<1>2. deletion' \in [Conversation -> Deletion] /\ DeletionsBegin
    BY <1>1 DEF DeletionsBegin, Deletion, Inv, TypeOK
<1> QED BY <1>1, <1>2, ExpiryStep

\* Shutdown and restart empty the registry.
LEMMA EmptyStep == ASSUME Inv, Shutdown \/ Restart PROVE Inv'
<1>1. /\ status' = [r \in Request |-> "absent"]
      /\ permit' = [r \in Request |-> FALSE]
      /\ claims' = {}
      /\ retired' = <<>>
      /\ UNCHANGED <<commit, target, expected, exists, answers, opened>>
    BY DEF Shutdown, Restart, EmptyRegistry, database
<1>2. /\ at' \in [Request -> Location]
      /\ deletion' \in [Conversation -> Deletion]
      /\ exclusive' \in BOOLEAN /\ down' \in BOOLEAN
    <2>1. CASE Shutdown
        BY <2>1 DEF Shutdown, Inv, TypeOK
    <2>2. CASE Restart
        BY <2>2 DEF Restart, Location, Deletion, Inv, TypeOK
    <2> QED BY <2>1, <2>2
<1>3. ~exclusive'
    BY DEF Shutdown, Restart
<1>4. \A r \in Request : ~Live(r)' /\ status'[r] = "absent"
    BY <1>1 DEF Live
<1>5. retired' \in Seq(Request) /\ Len(retired') = 0
    BY <1>1, EmptySeq
<1>6. TypeOK'
    BY <1>1, <1>2, <1>5, BoundAssumption, SMT DEF Inv, TypeOK, Status
<1>7. RetiredAreOver'
    BY <1>5, SMT DEF RetiredAreOver
<1>8. EntriesAreHeld' /\ ClaimsMatch' /\ DeletionIsAlone' /\ MaintenanceIsAlone'
    BY <1>1, <1>3, <1>4 DEF EntriesAreHeld, ClaimsMatch, DeletionIsAlone, MaintenanceIsAlone
<1> QED BY <1>6, <1>7, <1>8 DEF Inv

\* The first event of a stream.
LEMMA AppendTextStep == ASSUME Inv, NEW r \in Request, AppendText(r) PROVE Inv'
<1>1. /\ status' = [status EXCEPT ![r] = "streaming"] /\ at[r] = "streaming" /\ Live(r)
      /\ UNCHANGED <<commit, permit, claims, retired, deletion, at, target, expected, exists, answers,
                     opened, exclusive, down>>
    BY DEF AppendText, database, Live
<1>2. \A x \in Request : /\ Live(x)' <=> Live(x)
                         /\ x # r => status'[x] = status[x]
    BY <1>1 DEF Live, Inv, TypeOK
<1>3. TypeOK'
    BY <1>1 DEF Inv, TypeOK, Status
<1>4. RetiredAreOver'
    <2>1. status[r] \notin Terminal
        BY <1>1 DEF Live, Terminal
    <2>2. \A i \in 1..Len(retired) : retired[i] \in Request
        BY SMT DEF Inv, TypeOK
    <2> QED BY <1>1, <1>2, <2>1, <2>2 DEF Inv, RetiredAreOver
<1>5. EntriesAreHeld'
    BY <1>1, <1>2 DEF Inv, EntriesAreHeld
<1>6. ClaimsMatch' /\ DeletionIsAlone' /\ MaintenanceIsAlone'
    BY <1>1, <1>2 DEF Inv, ClaimsMatch, DeletionIsAlone, MaintenanceIsAlone
<1> QED BY <1>3, <1>4, <1>5, <1>6 DEF Inv

\* create_at refuses a request that would share its conversation.
LEMMA CreateStep == ASSUME Inv, NEW r \in Request, NEW n, Create(r, n) PROVE Inv'
<1> DEFINE rest == SubSeq(retired, n + 1, Len(retired))
<1>1. /\ n \in 0..Len(retired) /\ at[r] = "prepared" /\ retired' = rest
      /\ UNCHANGED <<commit, deletion, target, expected, exists, answers, opened, exclusive, down>>
    BY DEF Create, database
<1>2. /\ Without(n) = [x \in Request |-> IF Expired(n, x) THEN "absent" ELSE status[x]]
      /\ \A x \in Request : Expired(n, x) => status[x] \in Terminal
      /\ rest \in Seq(Request) /\ Len(rest) = Len(retired) - n
      /\ \A i \in 1..(Len(retired) - n) :
            /\ rest[i] = retired[i + n]
            /\ ~Expired(n, retired[i + n])
            /\ status[retired[i + n]] \in Terminal
    BY <1>1, ExpiryEffect DEF Inv
<1>3. status[r] = "absent" /\ ~Live(r) /\ ~Expired(n, r) /\ ~exclusive
    BY <1>1, <1>2 DEF Inv, EntriesAreHeld, MaintenanceIsAlone, Live, Terminal
<1>4. Len(retired) \in Nat /\ n \in Nat /\ Len(rest) <= MaxRetained
      /\ \A i \in 1..Len(retired) : retired[i] \in Request
    BY <1>1, <1>2, BoundAssumption, SMT DEF Inv, TypeOK
<1>5. \A i \in 1..Len(rest) : i + n \in 1..Len(retired) /\ i \in 1..(Len(retired) - n)
    BY <1>2, <1>4, SMT
<1>6. \A i, j \in 1..Len(rest) : rest[i] = rest[j] => i = j
    <2> SUFFICES ASSUME NEW i \in 1..Len(rest), NEW j \in 1..Len(rest), rest[i] = rest[j]
                 PROVE  i = j
        OBVIOUS
    <2>1. i + n = j + n
        BY <1>2, <1>5 DEF Inv, RetiredAreOver
    <2> QED BY <2>1, <1>2, <1>4, SMT
<1>7. Without(n) \in [Request -> Status] /\ Without(n)[r] = "absent"
      /\ \A i \in 1..Len(rest) : Without(n)[rest[i]] \in Terminal /\ rest[i] # r /\ rest[i] \in Request
    <2>1. Without(n) \in [Request -> Status] /\ Without(n)[r] = "absent"
        BY <1>2, <1>3 DEF Inv, TypeOK, Status
    <2>2. \A i \in 1..Len(rest) : Without(n)[rest[i]] \in Terminal /\ rest[i] \in Request
        BY <1>2, <1>4, <1>5
    <2>3. "absent" \notin Terminal
        BY DEF Terminal
    <2> QED BY <2>1, <2>2, <2>3
<1>8. CASE Full \/ (target[r] # Fresh /\ Conflict(target[r]))
    <2>1. /\ at' = [at EXCEPT ![r] = "over"] /\ status' = Without(n)
          /\ UNCHANGED <<permit, claims>>
        BY <1>8 DEF Create, Goto
    <2>2. \A x \in Request : Live(x)' <=> Live(x)
        BY <1>2, <2>1 DEF Live, Terminal
    <2>3. TypeOK'
        BY <1>1, <1>2, <1>4, <1>7, <2>1 DEF Inv, TypeOK, Location
    <2>4. RetiredAreOver'
        BY <1>1, <1>6, <1>7, <2>1 DEF RetiredAreOver
    <2>5. EntriesAreHeld'
        <3> SUFFICES ASSUME NEW x \in Request
                     PROVE  /\ permit'[x] <=> Live(x)'
                            /\ Live(x)' => at'[x] # "over"
                            /\ at'[x] \in {"idle", "prepared"} => status'[x] = "absent"
            BY DEF EntriesAreHeld
        <3>1. CASE x = r
            BY <1>3, <1>7, <2>1, <2>2, <3>1 DEF Inv, EntriesAreHeld
        <3>2. CASE x # r
            <4>1. at'[x] = at[x] /\ status'[x] \in {status[x], "absent"}
                BY <1>2, <2>1, <3>2 DEF Inv, TypeOK
            <4> QED BY <2>1, <2>2, <4>1 DEF Inv, EntriesAreHeld
        <3> QED BY <3>1, <3>2
    <2>6. ClaimsMatch' /\ DeletionIsAlone' /\ MaintenanceIsAlone'
        BY <1>1, <1>3, <2>1, <2>2 DEF Inv, ClaimsMatch, DeletionIsAlone, MaintenanceIsAlone
    <2> QED BY <2>3, <2>4, <2>5, <2>6 DEF Inv
<1>9. CASE ~(Full \/ (target[r] # Fresh /\ Conflict(target[r])))
    <2>1. /\ at' = [at EXCEPT ![r] = "registered"] /\ status' = [Without(n) EXCEPT ![r] = "preparing"]
          /\ permit' = [permit EXCEPT ![r] = TRUE]
          /\ claims' = IF target[r] = Fresh THEN claims ELSE claims \cup {<<target[r], r>>}
        BY <1>9 DEF Create, Goto
    <2>2. \A x \in Request : /\ Live(x)' <=> Live(x) \/ x = r
                             /\ x # r => status'[x] \in {status[x], "absent"} /\ at'[x] = at[x]
        BY <1>2, <1>3, <1>7, <2>1 DEF Live, Terminal, Inv, TypeOK
    <2>3. target[r] \in Conversation \cup {Fresh} /\ claims' \subseteq Conversation \X Request
        BY <2>1 DEF Inv, TypeOK
    <2>4. TypeOK'
        <3>1. status' \in [Request -> Status] /\ at' \in [Request -> Location]
              /\ permit' \in [Request -> BOOLEAN]
            BY <1>7, <2>1 DEF Inv, TypeOK, Location, Status
        <3> QED BY <1>1, <1>2, <1>4, <2>3, <3>1 DEF Inv, TypeOK
    <2>5. RetiredAreOver'
        <3>1. \A i \in 1..Len(rest) : status'[rest[i]] \in Terminal
            BY <1>7, <2>1
        <3> QED BY <1>1, <1>6, <3>1 DEF RetiredAreOver
    <2>6. EntriesAreHeld'
        <3> SUFFICES ASSUME NEW x \in Request
                     PROVE  /\ permit'[x] <=> Live(x)'
                            /\ Live(x)' => at'[x] # "over"
                            /\ at'[x] \in {"idle", "prepared"} => status'[x] = "absent"
            BY DEF EntriesAreHeld
        <3>1. CASE x = r
            <4>1. at'[x] = "registered" /\ permit'[x]
                BY <2>1, <3>1 DEF Inv, TypeOK
            <4> QED BY <2>2, <3>1, <4>1
        <3>2. CASE x # r
            <4>1. permit'[x] = permit[x]
                BY <2>1, <3>2 DEF Inv, TypeOK
            <4> QED BY <2>2, <3>2, <4>1 DEF Inv, EntriesAreHeld
        <3> QED BY <3>1, <3>2
    <2>7. target[r] # Fresh => /\ \A x \in Request : <<target[r], x>> \notin claims
                               /\ deletion[target[r]] = "none"
        BY <1>9, <2>3 DEF Conflict
    <2>8. \A x \in Request : Live(x) /\ target[x] # Fresh => target[x] # target[r]
        <3> SUFFICES ASSUME NEW x \in Request, Live(x), target[x] # Fresh, target[x] = target[r] PROVE FALSE
            OBVIOUS
        <3>1. target[x] \in Conversation
            BY DEF Inv, TypeOK
        <3>2. <<target[x], x>> \in claims
            BY <3>1 DEF Inv, ClaimsMatch
        <3> QED BY <2>7, <3>2
    <2>9. ClaimsMatch'
        <3>1. \A c \in Conversation, x \in Request : <<c, x>> \in claims' <=> Live(x)' /\ target'[x] = c
            <4> SUFFICES ASSUME NEW c \in Conversation, NEW x \in Request
                         PROVE  <<c, x>> \in claims' <=> Live(x)' /\ target'[x] = c
                OBVIOUS
            <4>1. <<c, x>> \in claims <=> Live(x) /\ target[x] = c
                BY DEF Inv, ClaimsMatch
            <4>2. <<c, x>> \in claims' <=> <<c, x>> \in claims \/ (c = target[r] /\ x = r)
                BY <2>1, FreshAssumption
            <4> QED BY <1>1, <1>3, <2>2, <4>1, <4>2
        <3>2. \A x, y \in Request :
                 Live(x)' /\ Live(y)' /\ target'[x] = target'[y] /\ target'[x] # Fresh => x = y
            BY <1>1, <2>2, <2>8 DEF Inv, ClaimsMatch
        <3> QED BY <3>1, <3>2 DEF ClaimsMatch
    <2>10. DeletionIsAlone' /\ MaintenanceIsAlone'
        BY <1>1, <1>3, <2>2, <2>7 DEF Inv, DeletionIsAlone, MaintenanceIsAlone
    <2> QED BY <2>4, <2>5, <2>6, <2>9, <2>10 DEF Inv
<1> QED BY <1>8, <1>9

-----------------------------------------------------------------------------
\* The initial state satisfies the invariant.
LEMMA InitInv == Init => Inv
<1> SUFFICES ASSUME Init PROVE Inv
    OBVIOUS
<1>1. retired = <<>> /\ retired \in Seq(Request) /\ Len(retired) = 0
    BY EmptySeq DEF Init
<1>2. TypeOK
    <2>1. <<>> \in Seq(Request)
        BY EmptySeq
    <2>2. Len(retired) <= MaxRetained
        BY <1>1, BoundAssumption, SMT
    <2> QED BY <1>1, <2>1, <2>2 DEF Init, TypeOK, Status, Location, Deletion
<1>3. RetiredAreOver
    BY <1>1, SMT DEF RetiredAreOver
<1>4. \A r \in Request : ~Live(r)
    BY DEF Init, Live
<1> QED BY <1>2, <1>3, <1>4 DEF Init, Inv, EntriesAreHeld, ClaimsMatch, DeletionIsAlone,
    MaintenanceIsAlone

\* Every step keeps the invariant.
LEMMA NextInv == Inv /\ [Next]_vars => Inv'
<1> SUFFICES ASSUME Inv, [Next]_vars PROVE Inv'
    OBVIOUS
<1>1. CASE UNCHANGED vars
    BY <1>1 DEF vars, registry, database, Inv, TypeOK, RetiredAreOver, EntriesAreHeld, Live,
        ClaimsMatch,
        DeletionIsAlone, MaintenanceIsAlone
<1>2. ASSUME NEW r \in Request,
             \/ \E c \in Conversation \cup {Fresh} : Prepare(r, c)
             \/ Begin(r) \/ Start(r) \/ AppendText(r) \/ Stream(r)
             \/ StoreFails(r) \/ Settle(r) \/ Cancel(r)
      PROVE  Inv'
    BY <1>2, PrepareStep, TaskStep, CreateStep, ReturnStep, AppendTextStep, CancelStep
       DEF Begin, Start, Stream, Settle
<1>3. ASSUME NEW c \in Conversation, DeletionStep(c) \/ \E n \in 0..MaxRetained : BeginDeletion(c, n)
      PROVE  Inv'
    BY <1>3, DeletionGoesOn, BeginDeletionStep
<1>4. CASE EnterMaintenance \/ LeaveMaintenance \/ Shutdown \/ Restart \/ \E n \in 1..MaxRetained : Look(n)
    BY <1>4, MaintenanceStep, EmptyStep, LookStep
<1> QED BY <1>1, <1>2, <1>3, <1>4 DEF Next

\* Holdings are sound in every state that satisfies the invariant.
LEMMA InvHolds == Inv => HoldingsAreSound
<1> SUFFICES ASSUME Inv PROVE HoldingsAreSound
    OBVIOUS
<1>1. ClaimsAreLive
    <2>1. ASSUME NEW cr \in claims PROVE Live(cr[2]) /\ target[cr[2]] = cr[1]
        <3>1. cr = <<cr[1], cr[2]>> /\ cr[1] \in Conversation /\ cr[2] \in Request
            BY DEF Inv, TypeOK
        <3> QED BY <3>1 DEF Inv, ClaimsMatch
    <2> QED BY <2>1 DEF ClaimsAreLive, Inv, ClaimsMatch
<1>2. OverHoldsNothing
    <2> SUFFICES ASSUME NEW r \in Request, at[r] = "over"
                 PROVE  ~permit[r] /\ ~Live(r) /\ \A cr \in claims : cr[2] # r
        BY DEF OverHoldsNothing
    <2>1. ~permit[r] /\ ~Live(r)
        BY DEF Inv, EntriesAreHeld
    <2> QED BY <1>1, <2>1 DEF ClaimsAreLive
<1> QED BY <1>1, <1>2 DEF Inv, HoldingsAreSound

\* registry.rs, orchestrator.rs: the variables keep their types for any requests,
\* conversations and limits.
THEOREM TypeCorrect == Spec => []TypeOK
<1>1. Inv => TypeOK
    BY DEF Inv
<1> QED BY <1>1, InitInv, NextInv, PTL DEF Spec

\* registry.rs 282, 568, 636, 704 and orchestrator.rs 419: whatever way a request ends,
\* its permit, its claim and its task are let go of together, and nothing runs beside
\* maintenance or beside the deletion of its conversation.
THEOREM Holdings == Spec => []HoldingsAreSound
BY InitInv, NextInv, InvHolds, PTL DEF Spec

-----------------------------------------------------------------------------
(* What is stored and what is shown.  A request that is shown as stopped is *)
(* Dead: it can neither be sealed nor be stored any more, and stays so.     *)

Stopped(r) == status[r] \in {"failed", "cancelled"}
Dead(r) ==
    /\ ~Kept(r) /\ ~Live(r)
    /\ at[r] \notin {"idle", "prepared", "sealed", "stored"}

\* One transaction writes at a time, and what it found when it took the lock still holds.
WritersAreSound ==
    /\ \A r, s \in Request : Writing(r) /\ Writing(s) => r = s
    /\ \A r \in Request :
          Writing(r) => Accepts(r) /\ \A c \in Conversation : deletion[c] # "deleting"

\* What is in the database was stored by a task that has passed its commit, for its target.
RowsAreSound ==
    /\ \A r \in Request : Kept(r) => at[r] \in {"stored", "over"}
    /\ \A c \in Conversation, r \in Request : r \in ToSet(answers[c]) => target[r] = c

\* A task past its commit has its answer in the database, and so has one shown as completed.
StoredIsKept ==
    \A r \in Request :
        at[r] = "stored" \/ status[r] = "completed" =>
            Kept(r) \/ (target[r] # Fresh /\ target[r] \notin exists)

\* From its authorization on a live entry refuses to be stopped.
SealedIsIrrevocable ==
    \A r \in Request : at[r] \in {"sealed", "stored"} /\ Live(r) => commit[r] = "irrevocable"

StoppedIsDead == \A r \in Request : Stopped(r) => Dead(r)

DataInv ==
    /\ WritersAreSound
    /\ RowsAreSound
    /\ StoredIsKept
    /\ SealedIsIrrevocable
    /\ StoppedIsDead
    /\ AnswersFollowTheirHistory

\* A step that stores and deletes nothing, and seals nothing.
Stores == \A r \in Request :
    /\ at[r] # "idle" => target'[r] = target[r] /\ expected'[r] = expected[r]
    /\ at'[r] \in {"writing", "sealed", "stored"} => at'[r] = at[r]
    /\ at'[r] \in {"idle", "prepared"} => at[r] \in {"idle", "prepared"}
    /\ at[r] \in {"stored", "over"} => at'[r] \in {at[r], "over"}
Shows == \A r \in Request :
    /\ ~Live(r) /\ at[r] \notin {"idle", "prepared"} => ~Live(r)'
    /\ at'[r] \in {"sealed", "stored"} /\ Live(r)' => commit'[r] = commit[r]
    /\ status'[r] = "completed" => status[r] = "completed" \/ at[r] = "stored"
    /\ Stopped(r)' => Stopped(r) \/ (~Live(r)' /\ ~Kept(r) /\ at'[r] \notin {"idle", "prepared", "sealed", "stored"})

\* Such a step keeps the rows, and what is shown agrees with them.
LEMMA DataStep ==
    ASSUME Inv, Inv', DataInv, UNCHANGED database, Stores, Shows,
           \A c \in Conversation : deletion'[c] = "deleting" => deletion[c] = "deleting"
    PROVE  DataInv' /\ \A r \in Request : Dead(r) => Dead(r)'
<1>1. \A r \in Request : Kept(r)' <=> Kept(r)
    BY DEF Kept, database
<1>2. UNCHANGED <<exists, answers, opened>>
    BY DEF database
<1>3. WritersAreSound'
    <2>1. \A r \in Request : Writing(r)' => Writing(r) /\ target'[r] = target[r] /\ expected'[r] = expected[r]
        BY DEF Stores, Writing
    <2> QED BY <1>2, <2>1 DEF DataInv, WritersAreSound, Accepts
<1>4. RowsAreSound'
    <2>1. \A r \in Request : Kept(r)' => at'[r] \in {"stored", "over"}
        BY <1>1 DEF DataInv, RowsAreSound, Stores
    <2>2. ASSUME NEW c \in Conversation, NEW r \in Request, r \in ToSet(answers'[c]) PROVE target'[r] = c
        <3>1. target[r] = c /\ at[r] \in {"stored", "over"}
            BY <1>2, <2>2 DEF DataInv, RowsAreSound, Kept
        <3> QED BY <3>1 DEF Stores
    <2> QED BY <2>1, <2>2 DEF RowsAreSound
<1>5. StoredIsKept'
    <2> SUFFICES ASSUME NEW r \in Request, at'[r] = "stored" \/ status'[r] = "completed"
                 PROVE  Kept(r)' \/ (target'[r] # Fresh /\ target'[r] \notin exists')
        BY DEF StoredIsKept
    <2>1. at[r] = "stored" \/ status[r] = "completed"
        BY DEF Stores, Shows
    <2>2. at[r] # "idle"
        BY <2>1 DEF Inv, EntriesAreHeld
    <2> QED BY <1>1, <1>2, <2>1, <2>2 DEF Stores, DataInv, StoredIsKept
<1>6. SealedIsIrrevocable'
    <2> SUFFICES ASSUME NEW r \in Request, at'[r] \in {"sealed", "stored"}, Live(r)'
                 PROVE  commit'[r] = "irrevocable"
        BY DEF SealedIsIrrevocable
    <2>1. at[r] = at'[r] /\ commit'[r] = commit[r]
        BY DEF Stores, Shows
    <2>2. Live(r)
        BY <2>1 DEF Shows
    <2> QED BY <2>1, <2>2 DEF DataInv, SealedIsIrrevocable
<1>7. \A r \in Request : Dead(r) => Dead(r)'
    BY <1>1 DEF Dead, Stores, Shows
<1>8. StoppedIsDead'
    <2> SUFFICES ASSUME NEW r \in Request, Stopped(r)' PROVE Dead(r)'
        BY DEF StoppedIsDead
    <2>1. CASE Stopped(r)
        BY <1>7, <2>1 DEF DataInv, StoppedIsDead
    <2>2. CASE ~Stopped(r)
        BY <1>1, <2>2 DEF Shows, Dead
    <2> QED BY <2>1, <2>2
<1>9. AnswersFollowTheirHistory'
    <2> SUFFICES ASSUME NEW c \in Conversation
                 PROVE  /\ \A i \in DOMAIN answers'[c] : expected'[answers'[c][i]] = i - 1
                        /\ c \notin exists' => answers'[c] = <<>>
        BY DEF AnswersFollowTheirHistory
    <2>1. ASSUME NEW i \in DOMAIN answers[c] PROVE expected'[answers[c][i]] = expected[answers[c][i]]
        <3>1. answers[c] \in Seq(Request)
            BY DEF Inv, TypeOK
        <3>2. answers[c][i] \in Request /\ answers[c][i] \in ToSet(answers[c])
            BY <2>1, <3>1, LenProperties, ElementOfSeq DEF ToSet
        <3>3. at[answers[c][i]] \in {"stored", "over"}
            BY <3>2 DEF DataInv, RowsAreSound, Kept
        <3> QED BY <3>2, <3>3 DEF Stores
    <2> QED BY <1>2, <2>1 DEF DataInv, AnswersFollowTheirHistory
<1> QED BY <1>3, <1>4, <1>5, <1>6, <1>7, <1>8, <1>9 DEF DataInv

\* DataStep applies to a step that stores nothing.
Harmless ==
    /\ UNCHANGED database /\ Stores /\ Shows
    /\ \A c \in Conversation : deletion'[c] = "deleting" => deletion[c] = "deleting"

\* Starting calls store nothing.
LEMMA StartsAreHarmless ==
    ASSUME Inv, DataInv, NEW r \in Request,
           \/ \E c \in Conversation \cup {Fresh} : Prepare(r, c)
           \/ GiveUp(r) \/ Spawn(r) \/ BeginCommit(r) \/ StoreFails(r)
    PROVE  Harmless
<1>1. UNCHANGED <<registry, deletion, database>> \/ BeginCommit(r)
    BY DEF Prepare, GiveUp, Spawn, StoreFails
<1>2. UNCHANGED <<status, deletion, database>>
    BY <1>1 DEF BeginCommit, registry
<1>3. \A x \in Request \ {r} : at'[x] = at[x] /\ target'[x] = target[x] /\ expected'[x] = expected[x] /\ commit'[x] = commit[x]
    BY DEF Prepare, GiveUp, Spawn, BeginCommit, StoreFails, Goto, registry, Inv, TypeOK
<1>4. /\ at[r] # "idle" => target'[r] = target[r] /\ expected'[r] = expected[r]
      /\ at'[r] \notin {"idle", "writing", "sealed", "stored"}
      /\ at'[r] = "prepared" => at[r] = "idle"
      /\ at[r] \notin {"stored", "over"}
    BY DEF Prepare, GiveUp, Spawn, BeginCommit, StoreFails, Goto, Inv, TypeOK
<1>5. Stores
    BY <1>3, <1>4 DEF Stores
<1>6. Shows
    BY <1>2, <1>3, <1>4 DEF Shows, Stopped, Live
<1> QED BY <1>2, <1>5, <1>6 DEF Harmless

\* Entering the registry stores nothing.
LEMMA CreateIsHarmless == ASSUME Inv, DataInv, NEW r \in Request, NEW n, Create(r, n) PROVE Harmless
<1>1. /\ UNCHANGED <<commit, deletion, target, expected, database>> /\ at[r] = "prepared"
      /\ n \in 0..Len(retired)
      /\ \E l \in {"over", "registered"} : at' = [at EXCEPT ![r] = l]
      /\ status' = Without(n) \/ status' = [Without(n) EXCEPT ![r] = "preparing"]
    BY DEF Create, Goto
<1>2. /\ Without(n) = [x \in Request |-> IF Expired(n, x) THEN "absent" ELSE status[x]]
      /\ \A x \in Request : Expired(n, x) => status[x] \in Terminal
    BY <1>1, ExpiryEffect DEF Inv
<1>3. \A x \in Request : x # r => status'[x] \in {status[x], "absent"} /\ at'[x] = at[x]
    BY <1>1, <1>2 DEF Inv, TypeOK
<1>4. status'[r] \in {status[r], "absent", "preparing"} /\ at'[r] \in {"over", "registered"}
    BY <1>1, <1>2 DEF Inv, TypeOK
<1>5. ~Stopped(r)' /\ status'[r] # "completed"
    <2>1. status[r] = "absent"
        BY <1>1 DEF Inv, EntriesAreHeld
    <2> QED BY <1>4, <2>1 DEF Stopped
<1>6. Stores
    BY <1>1, <1>3, <1>4 DEF Stores
<1>7. Shows
    BY <1>1, <1>3, <1>4, <1>5 DEF Shows, Stopped, Live
<1> QED BY <1>1, <1>6, <1>7 DEF Harmless

\* An entry that ends is not kept unless it completes.
LEMMA EndIsHarmless ==
    ASSUME Inv, DataInv, NEW r \in Request, NEW s \in Terminal, Live(r), End(r, s),
           at' = at \/ at' = [at EXCEPT ![r] = "over"],
           s = "completed" => at[r] = "stored",
           s # "completed" => /\ at[r] \notin {"idle", "prepared", "sealed", "stored", "over"}
                              /\ at'[r] \notin {"idle", "prepared", "sealed", "stored"},
           UNCHANGED <<deletion, target, expected, database>>
    PROVE  Harmless
<1>1. Sets(r, s) /\ UNCHANGED commit
    BY EndEffect DEF Inv, End
<1>2. \A x \in Request : x # r => status'[x] \in {status[x], "absent"} /\ at'[x] = at[x]
    BY <1>1 DEF Sets, Fades, Inv, TypeOK
<1>3. status'[r] = s /\ ~Live(r)'
    BY <1>1 DEF Sets, Live, Terminal
<1>4. at'[r] \in {at[r], "over"}
    BY DEF Inv, TypeOK
<1>5. Stores
    BY <1>2, <1>4 DEF Stores
<1>6. s # "completed" => ~Kept(r)
    BY DEF DataInv, RowsAreSound
<1>7. Shows
    <2> SUFFICES ASSUME NEW x \in Request
                 PROVE  /\ ~Live(x) /\ at[x] \notin {"idle", "prepared"} => ~Live(x)'
                        /\ at'[x] \in {"sealed", "stored"} /\ Live(x)' => commit'[x] = commit[x]
                        /\ status'[x] = "completed" => status[x] = "completed" \/ at[x] = "stored"
                        /\ Stopped(x)' => \/ Stopped(x)
                                          \/ /\ ~Live(x)' /\ ~Kept(x)
                                             /\ at'[x] \notin {"idle", "prepared", "sealed", "stored"}
        BY DEF Shows
    <2>1. CASE x = r
        BY <1>1, <1>3, <1>6, <2>1 DEF Stopped
    <2>2. CASE x # r
        BY <1>1, <1>2, <2>2 DEF Stopped, Live
    <2> QED BY <2>1, <2>2
<1> QED BY <1>5, <1>7 DEF Harmless

\* A task that returns stores nothing.
LEMMA ReturnIsHarmless ==
    ASSUME Inv, DataInv, NEW r \in Request, StartFails(r) \/ StreamFails(r) \/ FailStored(r) \/ Complete(r)
    PROVE  Harmless
<1>1. UNCHANGED <<deletion, target, expected, database>> /\ at' = [at EXCEPT ![r] = "over"]
    BY DEF StartFails, StreamFails, FailStored, Complete, FailAndReturn, Goto
<1>2. CASE Live(r)
    <2>1. CASE Complete(r)
        BY <1>1, <1>2, <2>1, EndIsHarmless DEF Complete, Terminal
    <2>2. CASE StartFails(r) \/ StreamFails(r) \/ FailStored(r)
        <3>1. End(r, "failed") /\ "failed" \in Terminal
              /\ at[r] \notin {"idle", "prepared", "sealed", "stored", "over"} /\ at'[r] = "over"
            BY <1>1, <1>2, <2>2 DEF StartFails, StreamFails, FailStored, FailAndReturn, Terminal, Inv,
                TypeOK
        <3> QED BY <1>1, <1>2, <3>1, EndIsHarmless
    <2> QED BY <2>1, <2>2
<1>3. CASE ~Live(r)
    <2>1. UNCHANGED registry /\ at[r] \notin {"idle", "prepared"}
        BY <1>3 DEF StartFails, StreamFails, FailStored, Complete, FailAndReturn
    <2>2. UNCHANGED <<status, commit>> /\ \A x \in Request : at'[x] \in {at[x], "over"} /\ (x # r => at'[x] = at[x])
        BY <1>1, <2>1 DEF registry, Inv, TypeOK
    <2>3. Stores
        BY <1>1, <2>2 DEF Stores
    <2>4. Shows
        BY <2>2, <1>3 DEF Shows, Stopped, Live
    <2> QED BY <1>1, <2>3, <2>4 DEF Harmless
<1> QED BY <1>2, <1>3

\* A stop is refused from the authorization on.
LEMMA CancelIsHarmless == ASSUME Inv, DataInv, NEW r \in Request, Cancel(r) PROVE Harmless
<1>1. /\ Live(r) /\ End(r, "cancelled") /\ at' = at
      /\ at[r] \notin {"idle", "prepared", "over"} /\ commit[r] # "irrevocable"
      /\ UNCHANGED <<deletion, target, expected, database>>
    BY DEF Cancel, Revocable, Inv, EntriesAreHeld
<1>2. at[r] \notin {"sealed", "stored"} /\ "cancelled" \in Terminal
    BY <1>1 DEF DataInv, SealedIsIrrevocable, Terminal
<1> QED BY <1>1, <1>2, EndIsHarmless

\* Nor do calls that only read, or that change the registry alone, store anything.
LEMMA OthersAreHarmless ==
    ASSUME Inv, DataInv,
           \/ \E r \in Request : AppendText(r)
           \/ \E n : Look(n) \/ \E c \in Conversation : BeginDeletion(c, n)
           \/ \E c \in Conversation : DeletionFails(c) \/ DropGuard(c)
           \/ EnterMaintenance \/ LeaveMaintenance \/ Shutdown \/ Restart
    PROVE  Harmless
<1>1. UNCHANGED <<commit, target, expected, database>>
    BY DEF AppendText, Look, BeginDeletion, DeletionFails, DropGuard, EnterMaintenance,
        LeaveMaintenance, Shutdown,
           Restart, registry
<1>2. \A c \in Conversation : deletion'[c] = "deleting" => deletion[c] = "deleting"
    BY DEF AppendText, Look, BeginDeletion, DeletionFails, DropGuard, EnterMaintenance,
        LeaveMaintenance, Shutdown,
           Restart, Inv, TypeOK
<1>3. at' = at \/ at' = [r \in Request |-> IF at[r] = "idle" THEN "idle" ELSE "over"]
    BY DEF AppendText, Look, BeginDeletion, DeletionFails, DropGuard, EnterMaintenance,
        LeaveMaintenance, Shutdown,
           Restart, registry
<1>4. \A x \in Request : \/ status'[x] \in {status[x], "absent"}
                         \/ Live(x) /\ status'[x] = "streaming"
    <2>1. ASSUME NEW n, NEW x \in Request, n \in 0..Len(retired) PROVE Without(n)[x] \in {status[x], "absent"}
        BY <2>1, ExpiryEffect DEF Inv
    <2>2. CASE \E r \in Request : AppendText(r)
        BY <2>2 DEF AppendText, Live, Inv, TypeOK
    <2>3. CASE \E n : Look(n) \/ \E c \in Conversation : BeginDeletion(c, n)
        BY <2>1, <2>3 DEF Look, BeginDeletion, Collect
    <2>4. CASE \/ \E c \in Conversation : DeletionFails(c) \/ DropGuard(c)
               \/ EnterMaintenance \/ LeaveMaintenance \/ Shutdown \/ Restart
        BY <2>4 DEF DeletionFails, DropGuard, EnterMaintenance, LeaveMaintenance, Shutdown, Restart,
            EmptyRegistry,
            registry
    <2> QED BY <2>2, <2>3, <2>4
<1>5. Stores
    BY <1>1, <1>3 DEF Stores
<1>6. Shows
    BY <1>1, <1>3, <1>4 DEF Shows, Stopped, Live
<1> QED BY <1>1, <1>2, <1>5, <1>6 DEF Harmless

-----------------------------------------------------------------------------
(* The steps of the transactions.                                           *)

DataStepOK == DataInv' /\ \A r \in Request : Dead(r) => Dead(r)'

\* A transaction that takes the write lock is alone with what it has checked.
LEMMA WriteStep == ASSUME Inv, DataInv, NEW r \in Request, Write(r) PROVE DataStepOK
<1>1. /\ at[r] = "storing" /\ DatabaseFree /\ Accepts(r)
      /\ at' = [at EXCEPT ![r] = "writing"]
      /\ UNCHANGED <<status, commit, deletion, target, expected, exists, answers, opened>>
    BY DEF Write, Goto, registry, database
<1>2. \A x \in Request : /\ x # r => at'[x] = at[x]
                         /\ at'[r] = "writing"
                         /\ Live(x)' <=> Live(x)
                         /\ Kept(x)' <=> Kept(x)
    BY <1>1 DEF Live, Kept, Inv, TypeOK
<1>3. WritersAreSound'
    <2>1. \A x \in Request : Writing(x)' <=> x = r
        BY <1>1, <1>2 DEF Writing, DatabaseFree
    <2> QED BY <1>1, <2>1 DEF WritersAreSound, Accepts, DatabaseFree
<1>4. RowsAreSound' /\ StoredIsKept' /\ AnswersFollowTheirHistory'
    BY <1>1, <1>2 DEF DataInv, RowsAreSound, StoredIsKept, AnswersFollowTheirHistory
<1>5. SealedIsIrrevocable'
    BY <1>1, <1>2 DEF DataInv, SealedIsIrrevocable
<1>6. \A x \in Request : Dead(x) => Dead(x)'
    BY <1>1, <1>2 DEF Dead
<1>7. StoppedIsDead'
    BY <1>1, <1>6 DEF DataInv, StoppedIsDead, Stopped
<1> QED BY <1>3, <1>4, <1>5, <1>6, <1>7 DEF DataInv, DataStepOK

\* The authorization is the point from which the entry cannot be stopped.
LEMMA AuthorizeStep == ASSUME Inv, DataInv, NEW r \in Request, Authorize(r) PROVE DataStepOK
<1>1. /\ at[r] = "writing"
      /\ UNCHANGED <<status, deletion, target, expected, exists, answers, opened>>
      /\ \/ /\ Live(r) /\ at' = [at EXCEPT ![r] = "sealed"]
            /\ commit' = [commit EXCEPT ![r] = "irrevocable"]
         \/ ~Live(r) /\ at' = [at EXCEPT ![r] = "failing"] /\ UNCHANGED commit
    BY DEF Authorize, Goto, database
<1>2. \A x \in Request : /\ x # r => at'[x] = at[x] /\ commit'[x] = commit[x]
                         /\ Live(x)' <=> Live(x)
                         /\ Kept(x)' <=> Kept(x)
    BY <1>1 DEF Live, Kept, Inv, TypeOK
<1>3. \/ Live(r) /\ at'[r] = "sealed" /\ commit'[r] = "irrevocable"
      \/ ~Live(r) /\ at'[r] = "failing"
    BY <1>1 DEF Inv, TypeOK
<1>4. WritersAreSound'
    <2>1. \A x \in Request : Writing(x)' => Writing(x)
        BY <1>1, <1>2, <1>3 DEF Writing
    <2> QED BY <1>1, <2>1 DEF DataInv, WritersAreSound, Accepts
<1>5. RowsAreSound' /\ StoredIsKept' /\ AnswersFollowTheirHistory'
    BY <1>1, <1>2, <1>3 DEF DataInv, RowsAreSound, StoredIsKept, AnswersFollowTheirHistory
<1>6. SealedIsIrrevocable'
    BY <1>1, <1>2, <1>3 DEF DataInv, SealedIsIrrevocable
<1>7. \A x \in Request : Dead(x) => Dead(x)'
    BY <1>1, <1>2, <1>3 DEF Dead
<1>8. StoppedIsDead'
    BY <1>1, <1>7 DEF DataInv, StoppedIsDead, Stopped
<1> QED BY <1>4, <1>5, <1>6, <1>7, <1>8 DEF DataInv, DataStepOK

\* The commit stores the answer where its transaction has checked that it belongs.
LEMMA CommitAnswerStep == ASSUME Inv, DataInv, NEW r \in Request, CommitAnswer(r) PROVE DataStepOK
<1>1. /\ at[r] = "sealed" /\ at' = [at EXCEPT ![r] = "stored"]
      /\ UNCHANGED <<status, commit, deletion, target, expected, exists>>
    BY DEF CommitAnswer, Goto, registry
<1>2. \A x \in Request : /\ x # r => at'[x] = at[x]
                         /\ at'[r] = "stored"
                         /\ Live(x)' <=> Live(x)
    BY <1>1 DEF Live, Inv, TypeOK
<1>3. Accepts(r)
    BY <1>1 DEF DataInv, WritersAreSound, Writing
<1>4. /\ answers' \in [Conversation -> Seq(Request)]
      /\ \A c \in Conversation :
            IF c = target[r] THEN answers'[c] = Append(answers[c], r) ELSE answers'[c] = answers[c]
      /\ opened' = IF target[r] = Fresh THEN opened \cup {r} ELSE opened
    <2>1. CASE target[r] = Fresh
        BY <2>1, FreshAssumption DEF CommitAnswer, Inv, TypeOK
    <2>2. CASE target[r] # Fresh
        <3>1. target[r] \in Conversation
            BY <2>2 DEF Inv, TypeOK
        <3>2. Append(answers[target[r]], r) \in Seq(Request)
            BY <3>1, SMT DEF Inv, TypeOK
        <3> QED BY <2>2, <3>1, <3>2 DEF CommitAnswer, Inv, TypeOK
    <2> QED BY <2>1, <2>2
<1>5. \A c \in Conversation, x \in Request :
         x \in ToSet(answers'[c]) <=> x \in ToSet(answers[c]) \/ (c = target[r] /\ x = r)
    <2> SUFFICES ASSUME NEW c \in Conversation, c = target[r]
                 PROVE  ToSet(answers'[c]) = ToSet(answers[c]) \cup {r}
        BY <1>4
    <2>1. answers[c] \in Seq(Request) /\ answers'[c] = Append(answers[c], r)
        BY <1>4 DEF Inv, TypeOK
    <2>2. /\ Len(answers'[c]) = Len(answers[c]) + 1 /\ Len(answers[c]) \in Nat
          /\ \A i \in 1..(Len(answers[c]) + 1) :
                answers'[c][i] = IF i = Len(answers[c]) + 1 THEN r ELSE answers[c][i]
        BY <2>1, SMT
    <2>3. DOMAIN answers[c] = 1..Len(answers[c]) /\ DOMAIN answers'[c] = 1..(Len(answers[c]) + 1)
        BY <1>4, <2>1, <2>2, LenProperties
    <2>4. DOMAIN answers'[c] = DOMAIN answers[c] \cup {Len(answers[c]) + 1}
          /\ Len(answers[c]) + 1 \notin DOMAIN answers[c]
        BY <2>2, <2>3, SMT
    <2>5. \A i \in DOMAIN answers[c] : answers'[c][i] = answers[c][i] /\ i \in DOMAIN answers'[c]
        BY <2>2, <2>3, <2>4, SMT
    <2>6. \A i \in DOMAIN answers'[c] : i \in DOMAIN answers[c] \/ answers'[c][i] = r
        BY <2>2, <2>3, SMT
    <2>7. \E i \in DOMAIN answers'[c] : answers'[c][i] = r
        BY <2>2, <2>3, SMT
    <2>8. \A x : x \in ToSet(answers'[c]) => x \in ToSet(answers[c]) \cup {r}
        BY <2>5, <2>6, Zenon DEF ToSet
    <2>9. \A x : x \in ToSet(answers[c]) \cup {r} => x \in ToSet(answers'[c])
        BY <2>5, <2>7, Zenon DEF ToSet
    <2> QED BY <2>8, <2>9, Zenon
<1>6. \A x \in Request : Kept(x)' <=> Kept(x) \/ x = r
    <2>1. CASE target[r] = Fresh
        BY <1>4, <1>5, <2>1, FreshAssumption DEF Kept
    <2>2. CASE target[r] # Fresh
        <3>1. target[r] \in Conversation
            BY <2>2 DEF Inv, TypeOK
        <3> QED BY <1>4, <1>5, <2>2, <3>1 DEF Kept
    <2> QED BY <2>1, <2>2
<1>7. WritersAreSound'
    <2>1. \A x \in Request : ~Writing(x)'
        BY <1>1, <1>2 DEF Writing, DataInv, WritersAreSound
    <2> QED BY <2>1 DEF WritersAreSound
<1>8. RowsAreSound'
    BY <1>1, <1>2, <1>5, <1>6 DEF DataInv, RowsAreSound
<1>9. StoredIsKept'
    BY <1>1, <1>2, <1>6 DEF DataInv, StoredIsKept
<1>10. SealedIsIrrevocable'
    BY <1>1, <1>2 DEF DataInv, SealedIsIrrevocable
<1>11. \A x \in Request : Dead(x) => Dead(x)'
    BY <1>1, <1>2, <1>6 DEF Dead
<1>12. StoppedIsDead'
    BY <1>1, <1>11 DEF DataInv, StoppedIsDead, Stopped
<1>13. AnswersFollowTheirHistory'
    <2> SUFFICES ASSUME NEW c \in Conversation
                 PROVE  /\ \A i \in DOMAIN answers'[c] : expected'[answers'[c][i]] = i - 1
                        /\ c \notin exists' => answers'[c] = <<>>
        BY DEF AnswersFollowTheirHistory
    <2>1. CASE c # target[r]
        BY <1>1, <1>4, <2>1 DEF DataInv, AnswersFollowTheirHistory
    <2>2. CASE c = target[r]
        <3>1. answers[c] \in Seq(Request) /\ answers'[c] = Append(answers[c], r) /\ answers'[c] \in Seq(Request)
            BY <1>4, <2>2 DEF Inv, TypeOK
        <3>2. c \in exists /\ expected[r] = Len(answers[c])
            BY <1>3, <2>2, FreshAssumption DEF Accepts
        <3>3. \A i \in 1..Len(answers[c]) : expected[answers[c][i]] = i - 1
            BY <3>1, LenProperties DEF DataInv, AnswersFollowTheirHistory
        <3>4. /\ Len(answers'[c]) = Len(answers[c]) + 1
              /\ \A i \in 1..Len(answers'[c]) :
                    \/ i = Len(answers[c]) + 1 /\ answers'[c][i] = r
                    \/ i \in 1..Len(answers[c]) /\ answers'[c][i] = answers[c][i]
            BY <3>1, SMT
        <3>5. \A i \in 1..Len(answers'[c]) : expected[answers'[c][i]] = i - 1
            <4> SUFFICES ASSUME NEW i \in 1..Len(answers'[c]) PROVE expected[answers'[c][i]] = i - 1
                OBVIOUS
            <4>1. CASE i = Len(answers[c]) + 1 /\ answers'[c][i] = r
                BY <3>1, <3>2, <4>1, SMT
            <4>2. CASE i \in 1..Len(answers[c]) /\ answers'[c][i] = answers[c][i]
                BY <3>3, <4>2
            <4> QED BY <3>4, <4>1, <4>2
        <3>6. DOMAIN answers'[c] = 1..Len(answers'[c])
            BY <3>1, LenProperties
        <3> QED BY <1>1, <3>2, <3>5, <3>6
    <2> QED BY <2>1, <2>2
<1> QED BY <1>7, <1>8, <1>9, <1>10, <1>11, <1>12, <1>13 DEF DataInv, DataStepOK

\* A deletion takes the write lock when nobody writes.
LEMMA LockStep == ASSUME Inv, DataInv, NEW c \in Conversation, LockForDeletion(c) PROVE DataStepOK
<1>1. /\ DatabaseFree
      /\ UNCHANGED <<status, commit, at, target, expected, exists, answers, opened>>
    BY DEF LockForDeletion, registry, database
<1>2. WritersAreSound'
    <2>1. \A x \in Request : ~Writing(x)'
        BY <1>1 DEF DatabaseFree, Writing
    <2> QED BY <2>1 DEF WritersAreSound
<1>3. \A x \in Request : (Kept(x)' <=> Kept(x)) /\ (Live(x)' <=> Live(x))
    BY <1>1 DEF Kept, Live
<1>4. RowsAreSound' /\ StoredIsKept' /\ SealedIsIrrevocable' /\ AnswersFollowTheirHistory'
    BY <1>1, <1>3 DEF DataInv, RowsAreSound, StoredIsKept, SealedIsIrrevocable,
        AnswersFollowTheirHistory
<1>5. StoppedIsDead' /\ \A x \in Request : Dead(x) => Dead(x)'
    BY <1>1, <1>3 DEF DataInv, StoppedIsDead, Stopped, Dead
<1> QED BY <1>2, <1>4, <1>5 DEF DataInv, DataStepOK

\* The deletion takes the messages with the conversation.
LEMMA CommitDeletionStep == ASSUME Inv, DataInv, NEW c \in Conversation, CommitDeletion(c) PROVE DataStepOK
<1>1. /\ UNCHANGED <<status, commit, at, target, expected, opened>>
      /\ deletion[c] = "deleting" /\ exists' = exists \ {c}
      /\ answers' = [answers EXCEPT ![c] = <<>>]
    BY DEF CommitDeletion, registry
<1>2. \A d \in Conversation : answers'[d] = IF d = c THEN <<>> ELSE answers[d]
    BY <1>1 DEF Inv, TypeOK
<1>3. ToSet(<<>>) = {}
    BY SMT DEF ToSet
<1>4. \A d \in Conversation, x \in Request : x \in ToSet(answers'[d]) <=> d # c /\ x \in ToSet(answers[d])
    BY <1>2, <1>3
<1>5. \A x \in Request : /\ Kept(x)' => Kept(x)
                         /\ Kept(x) /\ ~Kept(x)' => target[x] = c
    BY <1>1, <1>4 DEF Kept, DataInv, RowsAreSound
<1>6. WritersAreSound'
    <2>1. \A x \in Request : ~Writing(x)'
        BY <1>1 DEF DataInv, WritersAreSound, Writing
    <2> QED BY <2>1 DEF WritersAreSound
<1>7. RowsAreSound'
    BY <1>1, <1>4, <1>5 DEF DataInv, RowsAreSound
<1>8. StoredIsKept'
    BY <1>1, <1>5, FreshAssumption DEF DataInv, StoredIsKept
<1>9. SealedIsIrrevocable'
    BY <1>1 DEF DataInv, SealedIsIrrevocable, Live
<1>10. \A x \in Request : Dead(x) => Dead(x)'
    BY <1>1, <1>5 DEF Dead, Live
<1>11. StoppedIsDead'
    BY <1>1, <1>10 DEF DataInv, StoppedIsDead, Stopped
<1>12. AnswersFollowTheirHistory'
    BY <1>1, <1>2 DEF DataInv, AnswersFollowTheirHistory
<1> QED BY <1>6, <1>7, <1>8, <1>9, <1>10, <1>11, <1>12 DEF DataInv, DataStepOK

-----------------------------------------------------------------------------
\* Nothing is stored or shown initially.
LEMMA InitData == Init => DataInv
<1> SUFFICES ASSUME Init PROVE DataInv
    OBVIOUS
<1>1. ToSet(<<>>) = {}
    BY SMT DEF ToSet
<1>2. \A r \in Request : ~Kept(r) /\ ~Live(r) /\ at[r] = "idle" /\ status[r] = "absent"
    BY <1>1 DEF Init, Kept, Live
<1>3. \A c \in Conversation : c \in exists /\ answers[c] = <<>> /\ DOMAIN answers[c] = {}
    BY EmptySeq, SMT DEF Init
<1> QED BY <1>1, <1>2, <1>3 DEF DataInv, WritersAreSound, RowsAreSound, StoredIsKept,
    SealedIsIrrevocable,
    StoppedIsDead, Stopped, AnswersFollowTheirHistory, Writing

\* Every step keeps what is stored and shown in agreement, and the dead dead.
LEMMA NextData == Inv /\ Inv' /\ DataInv /\ [Next]_vars => DataStepOK
<1> SUFFICES ASSUME Inv, Inv', DataInv, [Next]_vars PROVE DataStepOK
    OBVIOUS
<1>1. CASE Harmless
    BY <1>1, DataStep DEF Harmless, DataStepOK
<1>2. CASE UNCHANGED vars
    <2>1. Harmless
        BY <1>2 DEF vars, registry, database, Harmless, Stores, Shows, Stopped, Live
    <2> QED BY <1>1, <2>1
<1>3. ASSUME NEW r \in Request,
             \/ \E c \in Conversation \cup {Fresh} : Prepare(r, c)
             \/ Begin(r) \/ Start(r) \/ AppendText(r) \/ Stream(r)
             \/ StoreFails(r) \/ Settle(r) \/ Cancel(r)
      PROVE  DataStepOK
    BY <1>1, <1>3, StartsAreHarmless, CreateIsHarmless, ReturnIsHarmless, CancelIsHarmless,
        OthersAreHarmless,
       WriteStep, AuthorizeStep, CommitAnswerStep DEF Begin, Start, Stream, Settle
<1>4. ASSUME NEW c \in Conversation, DeletionStep(c) \/ \E n \in 0..MaxRetained : BeginDeletion(c, n)
      PROVE  DataStepOK
    BY <1>1, <1>4, OthersAreHarmless, LockStep, CommitDeletionStep DEF DeletionStep
<1>5. CASE EnterMaintenance \/ LeaveMaintenance \/ Shutdown \/ Restart \/ \E n \in 1..MaxRetained : Look(n)
    BY <1>1, <1>5, OthersAreHarmless
<1> QED BY <1>2, <1>3, <1>4, <1>5 DEF Next

\* What is stored and what is shown agree in every reachable state.
LEMMA Data == Spec => [](Inv /\ DataInv)
<1>1. Inv /\ DataInv /\ [Next]_vars => (Inv /\ DataInv)'
    BY NextInv, NextData DEF DataStepOK
<1> QED BY <1>1, InitInv, InitData, PTL DEF Spec

\* orchestrator.rs 419-520: a request that the window shows as completed has its answer in
\* the database, unless the user has deleted the conversation.
THEOREM Completion == Spec => []CompletedIsKept
<1>1. DataInv => CompletedIsKept
    BY DEF DataInv, StoredIsKept, CompletedIsKept
<1> QED BY <1>1, Data, PTL

\* conversations.rs 850: the transaction's own check of the ordinal keeps every transcript in
\* the order it was asked in, whatever ran between the question and the commit.
THEOREM History == Spec => []AnswersFollowTheirHistory
<1>1. DataInv => AnswersFollowTheirHistory
    BY DEF DataInv
<1> QED BY <1>1, Data, PTL

\* registry.rs 568: an answer shown as stopped or failed is not stored, now or later.
THEOREM Stops == Spec => StoppedIsNeverKept
<1> SUFFICES ASSUME NEW r \in Request PROVE Spec => [](Stopped(r) => [](~Kept(r)))
    BY DEF StoppedIsNeverKept, Stopped
<1>1. DataInv /\ Stopped(r) => Dead(r)
    BY DEF DataInv, StoppedIsDead
<1>2. Inv /\ DataInv /\ Inv' /\ DataInv' /\ [Next]_vars /\ Dead(r) => Dead(r)'
    BY NextData DEF DataStepOK
<1>3. Dead(r) => ~Kept(r)
    BY DEF Dead
<1> QED BY <1>1, <1>2, <1>3, Data, PTL DEF Spec
=============================================================================
