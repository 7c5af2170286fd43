--------------------------- MODULE LinkPulseProofs --------------------------
(***************************************************************************)
(* Proofs about LinkPulse for any number of scripts, interfaces, vectors   *)
(* and children: no vector leaks or is freed under the list, and the       *)
(* plugin implements LinkListener.                                         *)
(***************************************************************************)
EXTENDS LinkPulse, SequenceTheorems, TLAPS

ChildArgv == [script: Paths, if_name: Interfaces, is_up: BOOLEAN]
Events == [if_name: Addresses, is_up: BOOLEAN, i: 0 .. ScriptNum]

PulseInv ==
  /\ TypeOK
  /\ VectorsOwned
  /\ event # None => event.i <= Len(callback_scripts)

\* The three outcomes of a command, with the vector of its path already freed or
\* taken over.
Refused ==
  /\ event = None
  /\ error' = TRUE /\ UNCHANGED <<callback_scripts, heap, event, children>>

Added(path, text) ==
  /\ event = None
  /\ heap[path] = None
  /\ Len(callback_scripts) < ScriptNum
  /\ \A i \in DOMAIN callback_scripts : heap[callback_scripts[i]] # text
  /\ callback_scripts' = Append(callback_scripts, path)
  /\ heap' = [heap EXCEPT ![path] = text]
  /\ error' = FALSE /\ UNCHANGED <<event, children>>

Removed(i, text) ==
  /\ event = None
  /\ heap[callback_scripts[i]] = text
  /\ callback_scripts' = Deleted(i)
  /\ heap' = [heap EXCEPT ![callback_scripts[i]] = None]
  /\ error' = FALSE /\ UNCHANGED <<event, children>>

-----------------------------------------------------------------------------
\* The elements of two parts put together, in terms of the lengths.
LEMMA Joined ==
  ASSUME NEW n \in Nat, NEW i \in 1 .. n, NEW s, NEW a, NEW b, NEW d, NEW la, NEW lb, NEW ld,
         la = i - 1, lb = n - i, ld = la + lb,
         \A k \in 1 .. la : a[k] = s[k],
         \A k \in 1 .. lb : b[k] = s[i + k],
         \A k \in 1 .. la + lb : d[k] = IF k <= la THEN a[k] ELSE b[k - la]
  PROVE  ld = n - 1 /\ \A j \in 1 .. ld : d[j] = IF j < i THEN s[j] ELSE s[j + 1]
<1>1. ld = n - 1
  OBVIOUS
<1>2. ASSUME NEW j \in 1 .. ld PROVE d[j] = IF j < i THEN s[j] ELSE s[j + 1]
  <2>1. CASE j < i
    BY <2>1
  <2>2. CASE ~(j < i)
    <3>1. j - la \in 1 .. lb /\ d[j] = b[j - la] /\ i + (j - la) = j + 1
      BY <2>2
    <3>2. b[j - la] = s[i + (j - la)]
      BY <3>1
    <3> QED
      BY <2>2, <3>1, <3>2
  <2> QED
    BY <2>1, <2>2
<1> QED
  BY <1>1, <1>2

\* What taking an element out of a sequence leaves.
LEMMA DeletedElements ==
  ASSUME NEW S, NEW s \in Seq(S), NEW i \in 1 .. Len(s)
  PROVE  LET d == SubSeq(s, 1, i - 1) \o SubSeq(s, i + 1, Len(s)) IN
         /\ d \in Seq(S) /\ Len(d) = Len(s) - 1
         /\ \A j \in 1 .. Len(d) : d[j] = IF j < i THEN s[j] ELSE s[j + 1]
<1> DEFINE a == SubSeq(s, 1, i - 1)
           b == SubSeq(s, i + 1, Len(s))
           d == a \o b
           n == Len(s)
           la == Len(a)
           lb == Len(b)
           ld == Len(d)
<1>0. n \in Nat /\ i \in 1 .. n /\ i \in Nat /\ \A k \in 1 .. n : s[k] \in S
  BY ElementOfSeq
<1>1. a \in Seq(S) /\ la = i - 1 /\ \A k \in 1 .. i - 1 : a[k] = s[k]
  <2>1. \A k \in 1 .. i - 1 : s[k] \in S
    BY <1>0
  <2>2. /\ a \in Seq(S) /\ Len(a) = IF 1 <= i - 1 THEN (i - 1) - 1 + 1 ELSE 0
        /\ \A k \in 1 .. (i - 1) - 1 + 1 : a[k] = s[1 + k - 1]
    BY <1>0, <2>1, SubSeqProperties
  <2> QED
    BY <1>0, <2>2
<1>2. b \in Seq(S) /\ lb = n - i /\ \A k \in 1 .. n - i : b[k] = s[i + k]
  <2>1. \A k \in i + 1 .. n : s[k] \in S
    BY <1>0
  <2>2. /\ b \in Seq(S) /\ Len(b) = IF i + 1 <= n THEN n - (i + 1) + 1 ELSE 0
        /\ \A k \in 1 .. n - (i + 1) + 1 : b[k] = s[(i + 1) + k - 1]
    BY <1>0, <2>1, SubSeqProperties
  <2> QED
    BY <1>0, <2>2
<1> HIDE DEF a, b
<1>3. /\ d \in Seq(S) /\ ld = la + lb
      /\ \A k \in 1 .. la + lb : d[k] = IF k <= la THEN a[k] ELSE b[k - la]
  BY <1>1, <1>2, ConcatProperties
<1> HIDE DEF d, n, la, lb, ld
<1>4. /\ \A k \in 1 .. la : a[k] = s[k]
      /\ \A k \in 1 .. lb : b[k] = s[i + k]
      /\ la = i - 1 /\ lb = n - i
  BY <1>1, <1>2
<1>5. ld = n - 1 /\ \A j \in 1 .. ld : d[j] = IF j < i THEN s[j] ELSE s[j + 1]
  BY <1>0, <1>3, <1>4, Joined
<1> QED
  BY <1>3, <1>5, Zenon DEF d, n, ld, a, b

LEMMA ScriptFacts ==
  ASSUME TypeOK
  PROVE  /\ DOMAIN callback_scripts = 1 .. Len(callback_scripts)
         /\ Len(callback_scripts) \in 0 .. ScriptNum
         /\ \A i \in DOMAIN callback_scripts : callback_scripts[i] \in Addresses
BY LinkConstants, LenProperties, ElementOfSeq DEF TypeOK

LEMMA DeletedScripts ==
  ASSUME TypeOK, NEW i \in DOMAIN callback_scripts
  PROVE  /\ Deleted(i) \in Seq(Addresses) /\ Len(Deleted(i)) = Len(callback_scripts) - 1
         /\ \A j \in 1 .. Len(Deleted(i)) : Deleted(i)[j] =
              IF j < i THEN callback_scripts[j] ELSE callback_scripts[j + 1]
<1>1. callback_scripts \in Seq(Addresses) /\ i \in 1 .. Len(callback_scripts)
  BY ScriptFacts DEF TypeOK
<1> QED
  BY <1>1, DeletedElements, Zenon DEF Deleted

LEMMA CommandOutcome ==
  ASSUME PulseInv, NEW is_add \in BOOLEAN, NEW trailing \in BOOLEAN, NEW text \in Paths,
         update_script(is_add, text, trailing)
  PROVE  \/ Refused
         \/ \E path \in Addresses : Added(path, text)
         \/ \E i \in DOMAIN callback_scripts : Removed(i, text)
<1> USE LinkConstants
<1>1. PICK path \in Addresses :
        /\ heap[path] = None
        /\ CASE trailing -> done([heap EXCEPT ![path] = text], path, path, TRUE) /\ UNCHANGED callback_scripts
             [] ~trailing /\ is_add -> add_script([heap EXCEPT ![path] = text], path)
             [] ~trailing /\ ~is_add -> del_script([heap EXCEPT ![path] = text], path)
  BY DEF update_script
<1> DEFINE mem == [heap EXCEPT ![path] = text]
<1>2. event = None
  BY DEF update_script
<1>3. heap \in [Addresses -> Paths \cup Interfaces \cup {None}]
  BY DEF PulseInv, TypeOK
<1>4. ASSUME NEW i \in DOMAIN callback_scripts
      PROVE  callback_scripts[i] \in Addresses /\ callback_scripts[i] # path /\ heap[callback_scripts[i]] \in Paths
  BY <1>1, ScriptFacts DEF PulseInv, VectorsOwned
<1>5. mem[path] = text /\ \A i \in DOMAIN callback_scripts : mem[callback_scripts[i]] = heap[callback_scripts[i]]
  BY <1>3, <1>4
<1>6. ASSUME done(mem, path, path, TRUE), UNCHANGED callback_scripts PROVE Refused
  <2>1. heap' = [mem EXCEPT ![path] = None] /\ error' = TRUE /\ UNCHANGED <<event, children>>
    BY <1>6 DEF done
  <2>2. [mem EXCEPT ![path] = None] = heap
    BY <1>1, <1>3
  <2> QED
    BY <1>2, <1>6, <2>1, <2>2 DEF Refused
<1>7. ASSUME add_script(mem, path) PROVE Refused \/ Added(path, text)
  <2> DEFINE full == \/ Len(callback_scripts) >= ScriptNum
                     \/ \E i \in DOMAIN callback_scripts : Matches(mem, path, i)
  <2>1. CASE full
    BY <1>6, <1>7, <2>1 DEF add_script
  <2>2. CASE ~full
    <3>1. callback_scripts' = Append(callback_scripts, path) /\ done(mem, path, None, FALSE)
      BY <1>7, <2>2 DEF add_script
    <3>2. heap' = mem /\ error' = FALSE /\ UNCHANGED <<event, children>>
      BY <3>1 DEF done
    <3>3. Len(callback_scripts) < ScriptNum
      BY <2>2, ScriptFacts DEF PulseInv
    <3>4. \A i \in DOMAIN callback_scripts : heap[callback_scripts[i]] # text
      BY <1>5, <2>2 DEF Matches
    <3> QED
      BY <1>1, <1>2, <3>1, <3>2, <3>3, <3>4 DEF Added
  <2> QED
    BY <2>1, <2>2
<1>8. ASSUME del_script(mem, path) PROVE Refused \/ \E i \in DOMAIN callback_scripts : Removed(i, text)
  <2>1. CASE done(mem, path, path, TRUE) /\ UNCHANGED callback_scripts
    BY <1>6, <2>1
  <2>2. ASSUME NEW i \in DOMAIN callback_scripts, Matches(mem, path, i),
               callback_scripts' = Deleted(i),
               done([mem EXCEPT ![callback_scripts[i]] = None], path, path, FALSE)
        PROVE  Removed(i, text)
    <3>1. /\ heap' = [[mem EXCEPT ![callback_scripts[i]] = None] EXCEPT ![path] = None]
          /\ error' = FALSE /\ UNCHANGED <<event, children>>
      <4>1. path # None
        OBVIOUS
      <4> QED
        BY <2>2, <4>1 DEF done
    <3>2. [[mem EXCEPT ![callback_scripts[i]] = None] EXCEPT ![path] = None]
            = [heap EXCEPT ![callback_scripts[i]] = None]
      BY <1>1, <1>3, <1>4
    <3>3. heap[callback_scripts[i]] = text
      BY <1>5, <2>2 DEF Matches
    <3> QED
      BY <1>2, <2>2, <3>1, <3>2, <3>3 DEF Removed
  <2> QED
    BY <1>8, <2>1, <2>2 DEF del_script
<1> QED
  BY <1>1, <1>6, <1>7, <1>8

-----------------------------------------------------------------------------
LEMMA PulseInit == Init => PulseInv
<1> SUFFICES ASSUME Init PROVE PulseInv
  OBVIOUS
<1>1. TypeOK
  <2>1. callback_scripts \in Seq(Addresses) /\ Len(callback_scripts) <= ScriptNum
    BY LinkConstants, EmptySeq DEF Init
  <2> QED
    BY <2>1 DEF Init, TypeOK
<1>2. DOMAIN callback_scripts = {}
  BY <1>1, ScriptFacts, EmptySeq DEF Init
<1> QED
  BY <1>1, <1>2 DEF PulseInv, VectorsOwned, Init

LEMMA AddedKeeps ==
  ASSUME PulseInv, NEW path \in Addresses, NEW text \in Paths, Added(path, text)
  PROVE  PulseInv'
<1> USE LinkConstants
<1> DEFINE n == Len(callback_scripts)
<1>1. /\ callback_scripts' \in Seq(Addresses) /\ Len(callback_scripts') = n + 1 /\ n \in Nat
      /\ callback_scripts'[n + 1] = path
      /\ \A i \in 1 .. n : callback_scripts'[i] = callback_scripts[i]
  BY AppendProperties, LenProperties DEF PulseInv, TypeOK, Added
<1>2. DOMAIN callback_scripts = 1 .. n /\ DOMAIN callback_scripts' = 1 .. n + 1
  BY <1>1, ScriptFacts, LenProperties DEF PulseInv
<1>3. /\ heap \in [Addresses -> Paths \cup Interfaces \cup {None}]
      /\ heap' = [heap EXCEPT ![path] = text] /\ heap[path] = None /\ n < ScriptNum
      /\ event = None /\ event' = None /\ error' = FALSE /\ children' = children
  BY DEF PulseInv, TypeOK, Added
<1>4. TypeOK'
  <2>1. heap' \in [Addresses -> Paths \cup Interfaces \cup {None}]
    BY <1>3
  <2>2. Len(callback_scripts') <= ScriptNum
    BY <1>1, <1>3
  <2>3. children' \in [Pids -> ChildArgv \cup {None}]
    BY <1>3 DEF PulseInv, TypeOK, ChildArgv
  <2> QED
    BY <1>1, <1>3, <2>1, <2>2, <2>3 DEF TypeOK, ChildArgv
<1>5. ASSUME NEW i \in 1 .. n
      PROVE  callback_scripts[i] \in Addresses /\ callback_scripts[i] # path /\ heap[callback_scripts[i]] \in Paths
  BY <1>2, <1>3, ScriptFacts DEF PulseInv, VectorsOwned
<1>6. ASSUME NEW i \in 1 .. n + 1, NEW j \in 1 .. n + 1, callback_scripts'[i] = callback_scripts'[j]
      PROVE  i = j
  <2>1. i \in 1 .. n \/ i = n + 1
    BY <1>1
  <2>2. j \in 1 .. n \/ j = n + 1
    BY <1>1
  <2> QED
    BY <2>1, <2>2, <1>1, <1>2, <1>5, <1>6 DEF PulseInv, VectorsOwned
<1>7. ASSUME NEW i \in 1 .. n + 1 PROVE heap'[callback_scripts'[i]] \in Paths
  <2>1. i \in 1 .. n \/ i = n + 1
    BY <1>1
  <2> QED
    BY <2>1, <1>1, <1>3, <1>5
<1>8. ASSUME NEW a \in Addresses, heap'[a] # None
      PROVE  \E i \in 1 .. n + 1 : a = callback_scripts'[i]
  <2>1. CASE a = path
    BY <2>1, <1>1
  <2>2. CASE a # path
    <3>1. PICK i \in 1 .. n : a = callback_scripts[i]
      BY <1>2, <1>3, <1>8, <2>2 DEF PulseInv, VectorsOwned
    <3> QED
      BY <3>1, <1>1
  <2> QED
    BY <2>1, <2>2
<1>9. VectorsOwned'
  BY <1>2, <1>3, <1>6, <1>7, <1>8 DEF VectorsOwned
<1> QED
  BY <1>3, <1>4, <1>9 DEF PulseInv

LEMMA RemovedKeeps ==
  ASSUME PulseInv, NEW text \in Paths, NEW i \in DOMAIN callback_scripts, Removed(i, text)
  PROVE  PulseInv'
<1> USE LinkConstants
<1> DEFINE n == Len(callback_scripts)
           was(j) == IF j < i THEN j ELSE j + 1
<1>1. callback_scripts \in Seq(Addresses) /\ n \in 0 .. ScriptNum /\ DOMAIN callback_scripts = 1 .. n /\ i \in 1 .. n
  BY ScriptFacts DEF PulseInv, TypeOK
<1>2. /\ callback_scripts' \in Seq(Addresses) /\ Len(callback_scripts') = n - 1
      /\ \A j \in 1 .. n - 1 : callback_scripts'[j] = IF j < i THEN callback_scripts[j] ELSE callback_scripts[j + 1]
  <2>1. callback_scripts' = Deleted(i)
    BY DEF Removed
  <2>2. /\ callback_scripts' \in Seq(Addresses) /\ Len(callback_scripts') = Len(callback_scripts) - 1
        /\ \A j \in 1 .. Len(callback_scripts') : callback_scripts'[j] =
              IF j < i THEN callback_scripts[j] ELSE callback_scripts[j + 1]
    BY <2>1, DeletedScripts, Zenon DEF PulseInv
  <2> QED
    BY <1>1, <2>2
<1>3. DOMAIN callback_scripts' = 1 .. n - 1
  BY <1>2, LenProperties
<1>4. ASSUME NEW j \in 1 .. n - 1
      PROVE  was(j) \in 1 .. n /\ was(j) # i /\ callback_scripts'[j] = callback_scripts[was(j)]
  <2>1. was(j) \in 1 .. n /\ was(j) # i
    BY <1>1
  <2> QED
    BY <2>1, <1>2
<1>5. /\ heap \in [Addresses -> Paths \cup Interfaces \cup {None}]
      /\ heap' = [heap EXCEPT ![callback_scripts[i]] = None]
      /\ event = None /\ event' = None /\ error' = FALSE /\ children' = children
  BY DEF PulseInv, TypeOK, Removed
<1>6. TypeOK'
  <2>1. heap' \in [Addresses -> Paths \cup Interfaces \cup {None}]
    BY <1>5
  <2>2. Len(callback_scripts') <= ScriptNum
    BY <1>1, <1>2
  <2>3. children' \in [Pids -> ChildArgv \cup {None}]
    BY <1>5 DEF PulseInv, TypeOK, ChildArgv
  <2> QED
    BY <1>2, <1>5, <2>1, <2>2, <2>3 DEF TypeOK, ChildArgv
<1>7. /\ \A j, k \in 1 .. n : callback_scripts[j] = callback_scripts[k] => j = k
      /\ \A j \in 1 .. n : callback_scripts[j] \in Addresses /\ heap[callback_scripts[j]] \in Paths
      /\ \A a \in Addresses : heap[a] # None => \E j \in 1 .. n : a = callback_scripts[j]
  BY <1>1, <1>5, ScriptFacts DEF PulseInv, VectorsOwned
<1>8. ASSUME NEW j \in 1 .. n - 1, NEW k \in 1 .. n - 1, callback_scripts'[j] = callback_scripts'[k]
      PROVE  j = k
  <2>1. was(j) = was(k)
    BY <1>4, <1>7, <1>8
  <2> QED
    BY <2>1, <1>1
<1> HIDE DEF was
<1>9. ASSUME NEW j \in 1 .. n - 1 PROVE heap'[callback_scripts'[j]] \in Paths
  <2>1. callback_scripts[was(j)] # callback_scripts[i]
    BY <1>1, <1>4, <1>7
  <2> QED
    BY <2>1, <1>4, <1>5, <1>7
<1>10. ASSUME NEW a \in Addresses, heap'[a] # None
       PROVE  \E j \in 1 .. n - 1 : a = callback_scripts'[j]
  <2>1. a # callback_scripts[i] /\ heap[a] # None
    BY <1>5, <1>10
  <2>2. PICK k \in 1 .. n : a = callback_scripts[k]
    BY <2>1, <1>7
  <2>3. CASE k < i
    <3>1. k \in 1 .. n - 1
      BY <2>3, <1>1
    <3> QED
      BY <3>1, <2>2, <2>3, <1>2
  <2>4. CASE k > i
    <3>1. k - 1 \in 1 .. n - 1 /\ ~(k - 1 < i) /\ (k - 1) + 1 = k
      BY <2>4, <1>1
    <3>2. callback_scripts'[k - 1] = callback_scripts[(k - 1) + 1]
      BY <3>1, <1>2
    <3> QED
      BY <3>1, <3>2, <2>2
  <2> QED
    BY <2>1, <2>2, <2>3, <2>4, <1>1
<1>11. VectorsOwned'
  BY <1>3, <1>5, <1>8, <1>9, <1>10 DEF VectorsOwned
<1> QED
  BY <1>5, <1>6, <1>11 DEF PulseInv

LEMMA EventStarts ==
  ASSUME PulseInv, NEW name \in Interfaces, NEW is_up \in BOOLEAN, link_up_down(name, is_up)
  PROVE  PulseInv'
<1> USE LinkConstants
<1>1. PICK if_name \in Addresses :
        /\ heap[if_name] = None /\ heap' = [heap EXCEPT ![if_name] = name]
        /\ event' = [if_name |-> if_name, is_up |-> is_up, i |-> 0]
  BY DEF link_up_down
<1>2. event = None /\ UNCHANGED <<callback_scripts, children, error>>
  BY DEF link_up_down
<1>3. event' \in Events /\ event'.if_name = if_name /\ event'.i = 0
  BY <1>1 DEF Events
<1>4. heap \in [Addresses -> Paths \cup Interfaces \cup {None}]
  BY DEF PulseInv, TypeOK
<1>5. TypeOK'
  <2>1. heap' \in [Addresses -> Paths \cup Interfaces \cup {None}]
    BY <1>1, <1>4
  <2> QED
    BY <2>1, <1>2, <1>3 DEF PulseInv, TypeOK, Events
<1>6. ASSUME NEW i \in DOMAIN callback_scripts
      PROVE  callback_scripts[i] # if_name /\ heap'[callback_scripts[i]] = heap[callback_scripts[i]]
  BY <1>1, <1>4, ScriptFacts DEF PulseInv, VectorsOwned
<1>7. heap'[if_name] = name /\ \A a \in Addresses : a # if_name => heap'[a] = heap[a]
  BY <1>1, <1>4
<1>8. VectorsOwned'
  <2>1. /\ \A i, j \in DOMAIN callback_scripts : callback_scripts[i] = callback_scripts[j] => i = j
        /\ \A i \in DOMAIN callback_scripts : heap'[callback_scripts[i]] \in Paths
    BY <1>6 DEF PulseInv, VectorsOwned
  <2>2. heap'[event'.if_name] \in Interfaces
        /\ \A i \in DOMAIN callback_scripts : callback_scripts[i] # event'.if_name
    BY <1>3, <1>6, <1>7
  <2>3. event' # None
    BY <1>3 DEF Events
  <2>4. ASSUME NEW a \in Addresses, heap'[a] # None
        PROVE  (\E i \in DOMAIN callback_scripts : a = callback_scripts[i]) \/ a = event'.if_name
    BY <1>2, <1>3, <1>7, <2>4 DEF PulseInv, VectorsOwned
  <2> QED
    BY <1>2, <2>1, <2>2, <2>3, <2>4 DEF VectorsOwned
<1> QED
  BY <1>2, <1>3, <1>5, <1>8, ScriptFacts DEF PulseInv

\* A script of the event is forked, or passed over.
LEMMA EventAdvances ==
  ASSUME PulseInv, event # None, event.i < Len(callback_scripts),
         event' = [event EXCEPT !.i = @ + 1], children' \in [Pids -> ChildArgv \cup {None}],
         UNCHANGED <<callback_scripts, heap, error>>
  PROVE  PulseInv'
<1> USE LinkConstants
<1>1. event \in Events /\ Len(callback_scripts) \in 0 .. ScriptNum
  BY ScriptFacts DEF PulseInv, TypeOK, Events
<1>2. event' \in Events /\ event'.if_name = event.if_name /\ event'.i = event.i + 1
  BY <1>1 DEF Events
<1>3. event.i + 1 <= Len(callback_scripts)
  BY <1>1 DEF Events
<1>4. TypeOK'
  BY <1>2 DEF PulseInv, TypeOK, Events, ChildArgv
<1>5. VectorsOwned'
  <2>1. event' # None
    BY <1>2 DEF Events
  <2> QED
    BY <1>2, <2>1 DEF PulseInv, VectorsOwned
<1> QED
  BY <1>2, <1>3, <1>4, <1>5 DEF PulseInv

\* What a script of the event is forked with.
LEMMA ForkedArgv ==
  ASSUME PulseInv, NEW pid \in Pids, run_script(pid)
  PROVE  /\ event.i + 1 \in DOMAIN callback_scripts
         /\ [script |-> heap[callback_scripts[event.i + 1]],
             if_name |-> heap[event.if_name], is_up |-> event.is_up] \in ChildArgv
         /\ children' \in [Pids -> ChildArgv \cup {None}]
<1>1. event \in Events /\ event # None /\ Len(callback_scripts) \in 0 .. ScriptNum
      /\ DOMAIN callback_scripts = 1 .. Len(callback_scripts) /\ event.i < Len(callback_scripts)
  BY LinkConstants, ScriptFacts DEF PulseInv, TypeOK, Events, run_script
<1>2. event.i + 1 \in DOMAIN callback_scripts /\ event.is_up \in BOOLEAN
  BY <1>1, LinkConstants DEF Events
<1> DEFINE argv == [script |-> heap[callback_scripts[event.i + 1]],
                    if_name |-> heap[event.if_name], is_up |-> event.is_up]
<1>3. argv \in ChildArgv
  BY <1>1, <1>2 DEF PulseInv, VectorsOwned, ChildArgv
<1>4. children' = [children EXCEPT ![pid] = argv]
  BY DEF run_script
<1> HIDE DEF argv
<1>5. children' \in [Pids -> ChildArgv \cup {None}]
  BY <1>3, <1>4 DEF PulseInv, TypeOK, ChildArgv
<1> QED
  BY <1>2, <1>3, <1>5 DEF argv

LEMMA EventEnds == PulseInv /\ link_handled => PulseInv'
<1> SUFFICES ASSUME PulseInv, link_handled PROVE PulseInv'
  OBVIOUS
<1> USE LinkConstants
<1>1. /\ event # None /\ event' = None /\ heap' = [heap EXCEPT ![event.if_name] = None]
      /\ UNCHANGED <<callback_scripts, children, error>>
  BY DEF link_handled
<1>2. event \in Events /\ heap \in [Addresses -> Paths \cup Interfaces \cup {None}]
  BY <1>1 DEF PulseInv, TypeOK, Events
<1>3. event.if_name \in Addresses
  BY <1>2 DEF Events
<1>4. heap'[event.if_name] = None /\ \A a \in Addresses : a # event.if_name => heap'[a] = heap[a]
  BY <1>1, <1>2, <1>3
<1>5. TypeOK'
  <2>1. heap' \in [Addresses -> Paths \cup Interfaces \cup {None}]
    BY <1>1, <1>2, <1>3
  <2> QED
    BY <2>1, <1>1 DEF PulseInv, TypeOK
<1>6. VectorsOwned'
  BY <1>1, <1>4, ScriptFacts DEF PulseInv, VectorsOwned
<1> QED
  BY <1>1, <1>5, <1>6 DEF PulseInv

LEMMA OthersKeep ==
  ASSUME PulseInv, UNCHANGED <<callback_scripts, heap, event>>,
         children' \in [Pids -> ChildArgv \cup {None}], error' \in BOOLEAN
  PROVE  PulseInv'
BY DEF PulseInv, TypeOK, VectorsOwned, ChildArgv

LEMMA PulseStep == PulseInv /\ [Next]_vars => PulseInv'
<1> SUFFICES ASSUME PulseInv, [Next]_vars PROVE PulseInv'
  OBVIOUS
<1>0. children \in [Pids -> ChildArgv \cup {None}] /\ error \in BOOLEAN
  BY DEF PulseInv, TypeOK, ChildArgv
<1>1. CASE UNCHANGED vars
  BY <1>0, <1>1, OthersKeep DEF vars
<1>2. ASSUME NEW is_add \in BOOLEAN, NEW trailing \in BOOLEAN, NEW text \in Paths,
             update_script(is_add, text, trailing)
      PROVE  PulseInv'
  <2>1. CASE Refused
    <3>1. UNCHANGED <<callback_scripts, heap, event, children>> /\ error' = TRUE
      BY <2>1 DEF Refused
    <3>2. error' \in BOOLEAN
      BY <3>1, Zenon
    <3> QED
      BY <1>0, <3>1, <3>2, OthersKeep
  <2> QED
    BY <1>2, <2>1, CommandOutcome, AddedKeeps, RemovedKeeps
<1>3. CASE unknown_input
  <2>1. UNCHANGED <<callback_scripts, heap, event, children>> /\ error' = TRUE
    BY <1>3 DEF unknown_input
  <2>2. error' \in BOOLEAN
    BY <2>1, Zenon
  <2> QED
    BY <1>0, <2>1, <2>2, OthersKeep
<1>4. ASSUME NEW name \in Interfaces, NEW is_up \in BOOLEAN, link_up_down(name, is_up) PROVE PulseInv'
  BY <1>4, EventStarts
<1>5. CASE fork_fails
  BY <1>0, <1>5, EventAdvances DEF fork_fails
<1>6. CASE link_handled
  BY <1>6, EventEnds
<1>7. ASSUME NEW pid \in Pids, run_script(pid) PROVE PulseInv'
  BY <1>7, EventAdvances, ForkedArgv DEF run_script
<1>8. ASSUME NEW pid \in Pids, child_ends(pid) PROVE PulseInv'
  BY <1>0, <1>8, OthersKeep DEF child_ends
<1> QED
  BY <1>1, <1>2, <1>3, <1>4, <1>5, <1>6, <1>7, <1>8 DEF Next

LEMMA PulseInvariant == Spec => []PulseInv
  BY PulseInit, PulseStep, PTL DEF Spec

\* Every variable of the plugin keeps its type: the list never grows past its
\* limit and every child is forked with a path and the name of an interface.
THEOREM PulseTypeCorrect == Spec => []TypeOK
<1>1. PulseInv => TypeOK
  BY DEF PulseInv
<1> QED
  BY PulseInvariant, <1>1, PTL

\* No vector leaks, is freed twice or is freed under the list or the event, for
\* any sequence of commands and link events.
THEOREM VectorsAreOwned == Spec => []VectorsOwned
<1>1. PulseInv => VectorsOwned
  BY DEF PulseInv
<1> QED
  BY PulseInvariant, <1>1, PTL

-----------------------------------------------------------------------------
\* The list as its users see it, for any state: this one and the next.
LEMMA TextsShape ==
  ASSUME NEW cs \in Seq(Addresses), NEW h, NEW texts,
         texts = [i \in DOMAIN cs |-> h[cs[i]]],
         \A i \in DOMAIN cs : h[cs[i]] \in Paths
  PROVE  /\ texts \in Seq(Paths) /\ Len(texts) = Len(cs)
         /\ DOMAIN texts = 1 .. Len(cs)
         /\ \A i \in 1 .. Len(cs) : texts[i] = h[cs[i]]
<1> DEFINE n == Len(cs)
<1>1. n \in Nat /\ DOMAIN cs = 1 .. n
  BY LenProperties
<1> HIDE DEF n
<1>2. texts \in [1 .. n -> Paths]
  BY <1>1
<1>3. texts \in Seq(Paths)
  BY <1>1, <1>2
<1>4. DOMAIN texts = 1 .. n /\ \A i \in 1 .. n : texts[i] = h[cs[i]]
  BY <1>1
<1>5. Len(texts) \in Nat /\ DOMAIN texts = 1 .. Len(texts)
  BY <1>3, LenProperties
<1>6. Len(texts) = n
  BY <1>1, <1>4, <1>5
<1> QED
  BY <1>3, <1>4, <1>6 DEF n

LEMMA TextsFacts ==
  ASSUME PulseInv
  PROVE  /\ Texts \in Seq(Paths) /\ Len(Texts) = Len(callback_scripts)
         /\ DOMAIN Texts = 1 .. Len(callback_scripts)
         /\ \A i \in 1 .. Len(callback_scripts) : Texts[i] = heap[callback_scripts[i]]
<1>1. callback_scripts \in Seq(Addresses)
      /\ \A i \in DOMAIN callback_scripts : heap[callback_scripts[i]] \in Paths
  BY DEF PulseInv, TypeOK, VectorsOwned
<1>2. Texts = [i \in DOMAIN callback_scripts |-> heap[callback_scripts[i]]]
  BY DEF Texts
<1> QED
  BY <1>1, <1>2, TextsShape

LEMMA NextTextsFacts ==
  ASSUME PulseInv'
  PROVE  /\ Texts' \in Seq(Paths) /\ Len(Texts') = Len(callback_scripts')
         /\ \A i \in 1 .. Len(callback_scripts') : Texts'[i] = heap'[callback_scripts'[i]]
<1>1. callback_scripts' \in Seq(Addresses)
      /\ \A i \in DOMAIN callback_scripts' : heap'[callback_scripts'[i]] \in Paths
  BY DEF PulseInv, TypeOK, VectorsOwned
<1>2. Texts' = [i \in DOMAIN callback_scripts' |-> heap'[callback_scripts'[i]]]
  BY DEF Texts
<1> QED
  BY <1>1, <1>2, TextsShape

\* The list is what it was when its pointers and what they point to are.
LEMMA TextsUntouched ==
  ASSUME callback_scripts' = callback_scripts,
         \A i \in DOMAIN callback_scripts : heap'[callback_scripts[i]] = heap[callback_scripts[i]]
  PROVE  Texts' = Texts
BY DEF Texts

LEMMA ChangeFacts ==
  ASSUME PulseInv, event # None
  PROVE  /\ event \in Events /\ event.i \in 0 .. Len(Texts)
         /\ Change = [if_name |-> heap[event.if_name], is_up |-> event.is_up,
                      todo |-> SubSeq(Texts, event.i + 1, Len(Texts))]
         /\ SubSeq(Texts, event.i + 1, Len(Texts)) \in Seq(Paths)
         /\ Change # None
<1>1. event \in Events
  BY DEF PulseInv, TypeOK, Events
<1>2. event.i \in 0 .. Len(Texts) /\ Len(Texts) \in Nat
  BY <1>1, LinkConstants, TextsFacts, LenProperties DEF PulseInv, Events
<1> DEFINE todo == SubSeq(Texts, event.i + 1, Len(Texts))
<1>3. todo \in Seq(Paths)
  <2>1. \A k \in event.i + 1 .. Len(Texts) : Texts[k] \in Paths
    BY <1>2, TextsFacts, ElementOfSeq
  <2> QED
    BY <1>2, <2>1, SubSeqProperties
<1>4. Change = [if_name |-> heap[event.if_name], is_up |-> event.is_up, todo |-> todo]
  BY DEF Change
<1> HIDE DEF todo
<1>5. Change # None
  BY <1>1, <1>3, <1>4, LinkConstants DEF Events, PulseInv, VectorsOwned
<1> QED
  BY <1>1, <1>2, <1>3, <1>4, <1>5 DEF todo

\* The next script of an event is the first of those left, and the others remain.
LEMMA NextScript ==
  ASSUME PulseInv, event # None, event.i < Len(callback_scripts),
         event' = [event EXCEPT !.i = @ + 1], UNCHANGED <<callback_scripts, heap>>
  PROVE  /\ Change # None /\ Change.todo # <<>>
         /\ Head(Change.todo) = heap[callback_scripts[event.i + 1]]
         /\ Change.if_name = heap[event.if_name] /\ Change.is_up = event.is_up
         /\ Change' = [Change EXCEPT !.todo = Tail(@)]
         /\ Texts' = Texts
<1> DEFINE n == Len(Texts)
           k == event.i + 1
           todo == SubSeq(Texts, k, n)
<1>1. /\ event \in Events /\ k \in 1 .. n /\ n \in Nat /\ n = Len(callback_scripts)
      /\ Texts \in Seq(Paths) /\ Texts[k] = heap[callback_scripts[k]]
  BY ChangeFacts, TextsFacts, LenProperties
<1>2. Head(todo) = Texts[k] /\ Tail(todo) = SubSeq(Texts, k + 1, n)
  <2>1. Texts \in Seq(Paths) /\ k \in 1 .. Len(Texts) /\ n \in k .. Len(Texts)
    BY <1>1
  <2> HIDE DEF k, n
  <2> QED
    BY <2>1, HeadTailOfSubSeq, Zenon
<1>3. todo # <<>>
  <2>1. \A j \in k .. n : Texts[j] \in Paths
    BY <1>1, ElementOfSeq
  <2>2. Len(todo) = n - k + 1
    BY <1>1, <2>1, SubSeqProperties
  <2>3. Len(todo) # 0
    BY <1>1, <2>2
  <2> HIDE DEF todo
  <2> QED
    BY <2>3, EmptySeq
<1>4. Change = [if_name |-> heap[event.if_name], is_up |-> event.is_up, todo |-> todo] /\ Change # None
  BY ChangeFacts
<1>5. Texts' = Texts
  BY TextsUntouched
<1>6. /\ event' # None /\ event'.if_name = event.if_name /\ event'.is_up = event.is_up
      /\ event'.i = k
  <2>1. event' \in [if_name: Addresses, is_up: BOOLEAN, i: Nat]
    BY <1>1, LinkConstants DEF Events
  <2>2. event' # None
    BY <2>1, LinkConstants
  <2> QED
    BY <1>1, <2>2 DEF Events
<1>7. Change' = [if_name |-> heap[event.if_name], is_up |-> event.is_up,
                 todo |-> SubSeq(Texts, k + 1, n)]
  BY <1>5, <1>6 DEF Change
<1> HIDE DEF todo, k, n
<1>8. Change' = [Change EXCEPT !.todo = Tail(@)]
  <2> DEFINE c == [if_name |-> heap[event.if_name], is_up |-> event.is_up, todo |-> todo]
             rest == Tail(todo)
  <2> HIDE DEF rest
  <2>1. [c EXCEPT !.todo = rest] = [if_name |-> heap[event.if_name], is_up |-> event.is_up, todo |-> rest]
    OBVIOUS
  <2>2. c.todo = todo
    OBVIOUS
  <2> HIDE DEF c
  <2>3. Change = c
    BY <1>4 DEF c
  <2>4. [Change EXCEPT !.todo = Tail(@)] = [c EXCEPT !.todo = rest]
    BY <2>2, <2>3, Zenon DEF rest
  <2>5. rest = SubSeq(Texts, k + 1, n)
    BY <1>2 DEF rest
  <2> QED
    BY <2>1, <2>4, <2>5, <1>7, Zenon
<1> QED
  BY <1>1, <1>2, <1>3, <1>4, <1>5, <1>8 DEF k

LEMMA ListenerInit == Init => Listener!Init
<1> SUFFICES ASSUME Init PROVE Listener!Init
  OBVIOUS
<1>1. PulseInv
  BY PulseInit
<1>2. Texts \in Seq(Paths) /\ Len(Texts) = 0
  BY <1>1, TextsFacts, EmptySeq DEF Init
<1>3. Texts = <<>>
  BY <1>2, EmptySeq
<1> QED
  BY <1>3 DEF Init, Listener!Init, Change

LEMMA RefusedMaps == Refused => Listener!Refuse
BY DEF Refused, Listener!Refuse, Change, Texts

LEMMA AddedMaps ==
  ASSUME PulseInv, PulseInv', NEW path \in Addresses, NEW text \in Paths, Added(path, text)
  PROVE  Listener!Add(text)
<1> DEFINE n == Len(callback_scripts)
<1>1. /\ event = None /\ event' = None /\ heap[path] = None /\ n < ScriptNum
      /\ callback_scripts' = Append(callback_scripts, path)
      /\ heap' = [heap EXCEPT ![path] = text] /\ error' = FALSE /\ children' = children
      /\ \A i \in DOMAIN callback_scripts : heap[callback_scripts[i]] # text
  BY DEF Added
<1>2. /\ callback_scripts \in Seq(Addresses) /\ n \in Nat /\ DOMAIN callback_scripts = 1 .. n
      /\ heap \in [Addresses -> Paths \cup Interfaces \cup {None}]
  BY LinkConstants, ScriptFacts DEF PulseInv, TypeOK
<1>3. /\ Len(callback_scripts') = n + 1 /\ callback_scripts'[n + 1] = path
      /\ \A i \in 1 .. n : callback_scripts'[i] = callback_scripts[i]
  BY <1>1, <1>2, AppendProperties
<1>4. \A i \in 1 .. n : callback_scripts[i] # path
  BY <1>1, <1>2, LinkConstants DEF PulseInv, VectorsOwned
<1>5. /\ Texts \in Seq(Paths) /\ Len(Texts) = n /\ DOMAIN Texts = 1 .. n
      /\ \A i \in 1 .. n : Texts[i] = heap[callback_scripts[i]]
  BY TextsFacts
<1>6. /\ Texts' \in Seq(Paths) /\ Len(Texts') = n + 1
      /\ \A i \in 1 .. n + 1 : Texts'[i] = heap'[callback_scripts'[i]]
  BY <1>3, NextTextsFacts
<1> DEFINE new == Append(Texts, text)
<1>7. /\ new \in Seq(Paths) /\ Len(new) = n + 1 /\ new[n + 1] = text
      /\ \A i \in 1 .. n : new[i] = Texts[i]
  BY <1>5, AppendProperties
<1>8. ASSUME NEW i \in 1 .. n + 1 PROVE Texts'[i] = new[i]
  <2> HIDE DEF new
  <2>1. CASE i = n + 1
    BY <1>1, <1>2, <1>3, <1>6, <1>7, <2>1
  <2>2. CASE i # n + 1
    <3>1. i \in 1 .. n /\ callback_scripts[i] \in Addresses
      BY <1>2, <2>2, ScriptFacts DEF PulseInv
    <3> QED
      BY <3>1, <1>1, <1>2, <1>3, <1>4, <1>5, <1>6, <1>7
  <2> QED
    BY <2>1, <2>2
<1>9. Texts' = new
  <2> HIDE DEF new
  <2> QED
    BY <1>6, <1>7, <1>8, SeqEqual
<1>10. ~Listener!Registered(text)
  BY <1>1, <1>2, <1>5 DEF Listener!Registered
<1>11. Change = None /\ Change' = None
  BY <1>1 DEF Change
<1> QED
  BY <1>1, <1>5, <1>9, <1>10, <1>11, Zenon DEF Listener!Add, n

LEMMA RemovedMaps ==
  ASSUME PulseInv, PulseInv', NEW text \in Paths, NEW i \in DOMAIN callback_scripts, Removed(i, text)
  PROVE  Listener!Remove(text)
<1> DEFINE n == Len(callback_scripts)
<1>1. /\ event = None /\ event' = None /\ heap[callback_scripts[i]] = text
      /\ callback_scripts' = Deleted(i)
      /\ heap' = [heap EXCEPT ![callback_scripts[i]] = None] /\ error' = FALSE /\ children' = children
  BY DEF Removed
<1>2. /\ callback_scripts \in Seq(Addresses) /\ n \in Nat /\ DOMAIN callback_scripts = 1 .. n
      /\ i \in 1 .. n /\ heap \in [Addresses -> Paths \cup Interfaces \cup {None}]
  BY LinkConstants, ScriptFacts DEF PulseInv, TypeOK
<1>3. /\ Len(callback_scripts') = n - 1
      /\ \A j \in 1 .. n - 1 : callback_scripts'[j] =
           IF j < i THEN callback_scripts[j] ELSE callback_scripts[j + 1]
  <2>1. /\ Len(callback_scripts') = Len(callback_scripts) - 1
        /\ \A j \in 1 .. Len(callback_scripts') : callback_scripts'[j] =
             IF j < i THEN callback_scripts[j] ELSE callback_scripts[j + 1]
    BY <1>1, DeletedScripts, Zenon DEF PulseInv
  <2> QED
    BY <1>2, <2>1
<1>4. \A j \in 1 .. n : j # i => callback_scripts[j] \in Addresses /\ callback_scripts[j] # callback_scripts[i]
  BY <1>2, ScriptFacts DEF PulseInv, VectorsOwned
<1>5. /\ Texts \in Seq(Paths) /\ Len(Texts) = n /\ DOMAIN Texts = 1 .. n
      /\ \A j \in 1 .. n : Texts[j] = heap[callback_scripts[j]]
  BY TextsFacts
<1>6. /\ Texts' \in Seq(Paths) /\ Len(Texts') = n - 1
      /\ \A j \in 1 .. n - 1 : Texts'[j] = heap'[callback_scripts'[j]]
  BY <1>3, NextTextsFacts
<1> DEFINE new == SubSeq(Texts, 1, i - 1) \o SubSeq(Texts, i + 1, Len(Texts))
<1>7. /\ new \in Seq(Paths) /\ Len(new) = n - 1
      /\ \A j \in 1 .. n - 1 : new[j] = IF j < i THEN Texts[j] ELSE Texts[j + 1]
  <2>1. i \in 1 .. Len(Texts)
    BY <1>2, <1>5
  <2>2. /\ new \in Seq(Paths) /\ Len(new) = Len(Texts) - 1
        /\ \A j \in 1 .. Len(new) : new[j] = IF j < i THEN Texts[j] ELSE Texts[j + 1]
    BY <1>5, <2>1, DeletedElements, Zenon
  <2> HIDE DEF new
  <2> QED
    BY <1>2, <1>5, <2>2
<1>8. ASSUME NEW j \in 1 .. n - 1 PROVE Texts'[j] = new[j]
  <2> HIDE DEF new
  <2> DEFINE k == IF j < i THEN j ELSE j + 1
  <2>1. k \in 1 .. n /\ k # i
    BY <1>2
  <2>2. callback_scripts'[j] = callback_scripts[k] /\ new[j] = Texts[k]
    BY <1>3, <1>7
  <2> HIDE DEF k
  <2>3. heap'[callback_scripts[k]] = heap[callback_scripts[k]]
    BY <2>1, <1>1, <1>2, <1>4
  <2> QED
    BY <2>1, <2>2, <2>3, <1>5, <1>6
<1>9. Texts' = new
  <2> HIDE DEF new
  <2> QED
    BY <1>6, <1>7, <1>8, SeqEqual
<1>10. Change = None /\ Change' = None
  BY <1>1 DEF Change
<1>11. i \in DOMAIN Texts /\ Texts[i] = text
  BY <1>1, <1>2, <1>5
<1> QED
  BY <1>1, <1>9, <1>10, <1>11, Zenon DEF Listener!Remove, new

LEMMA EventMaps ==
  ASSUME PulseInv, PulseInv', NEW name \in Interfaces, NEW is_up \in BOOLEAN, link_up_down(name, is_up)
  PROVE  Listener!LinkChanges(name, is_up)
<1>1. PICK if_name \in Addresses :
        /\ heap[if_name] = None /\ heap' = [heap EXCEPT ![if_name] = name]
        /\ event' = [if_name |-> if_name, is_up |-> is_up, i |-> 0]
  BY DEF link_up_down
<1>2. event = None /\ UNCHANGED <<callback_scripts, children, error>>
  BY DEF link_up_down
<1>3. /\ heap \in [Addresses -> Paths \cup Interfaces \cup {None}]
      /\ event'.if_name = if_name /\ event'.is_up = is_up /\ event'.i = 0
      /\ event' \in [if_name: Addresses, is_up: BOOLEAN, i: Nat]
  BY <1>1 DEF PulseInv, TypeOK
<1>4. event' # None /\ heap'[if_name] = name
  BY <1>1, <1>3, LinkConstants
<1>5. \A i \in DOMAIN callback_scripts : heap'[callback_scripts[i]] = heap[callback_scripts[i]]
  BY <1>1, <1>3, ScriptFacts, LinkConstants DEF PulseInv, VectorsOwned
<1>6. Texts' = Texts
  BY <1>2, <1>5, TextsUntouched
<1>7. SubSeq(Texts, 1, Len(Texts)) = Texts
  BY TextsFacts, SubSeqFull
<1>8. Change' = [if_name |-> name, is_up |-> is_up, todo |-> SubSeq(Texts, 0 + 1, Len(Texts))]
  BY <1>3, <1>4, <1>6, Zenon DEF Change
<1>9. 0 + 1 = 1
  OBVIOUS
<1>10. Change' = [if_name |-> name, is_up |-> is_up, todo |-> Texts]
  BY <1>7, <1>8, <1>9, Zenon
<1>11. Change = None
  BY <1>2 DEF Change
<1> QED
  BY <1>2, <1>6, <1>10, <1>11, Zenon DEF Listener!LinkChanges

LEMMA ForkMaps ==
  ASSUME PulseInv, NEW pid \in Pids, run_script(pid)
  PROVE  Listener!Start(pid)
<1>1. /\ event # None /\ event.i < Len(callback_scripts) /\ children[pid] = None
      /\ children' = [children EXCEPT ![pid] =
           [script |-> heap[callback_scripts[event.i + 1]],
            if_name |-> heap[event.if_name], is_up |-> event.is_up]]
      /\ event' = [event EXCEPT !.i = @ + 1] /\ UNCHANGED <<callback_scripts, heap, error>>
  BY DEF run_script
<1>2. /\ Change # None /\ Change.todo # <<>>
      /\ Head(Change.todo) = heap[callback_scripts[event.i + 1]]
      /\ Change.if_name = heap[event.if_name] /\ Change.is_up = event.is_up
      /\ Change' = [Change EXCEPT !.todo = Tail(@)] /\ Texts' = Texts
  BY <1>1, NextScript
<1> QED
  BY <1>1, <1>2, Zenon DEF Listener!Start

LEMMA ForkFailureMaps == PulseInv /\ fork_fails => Listener!PassOver
<1> SUFFICES ASSUME PulseInv, fork_fails PROVE Listener!PassOver
  OBVIOUS
<1>1. /\ event # None /\ event.i < Len(callback_scripts)
      /\ event' = [event EXCEPT !.i = @ + 1] /\ UNCHANGED <<callback_scripts, heap, children, error>>
  BY DEF fork_fails
<1>2. /\ Change # None /\ Change.todo # <<>>
      /\ Change' = [Change EXCEPT !.todo = Tail(@)] /\ Texts' = Texts
  BY <1>1, NextScript
<1> QED
  BY <1>1, <1>2, Zenon DEF Listener!PassOver

LEMMA EndMaps == PulseInv /\ link_handled => Listener!AllStarted
<1> SUFFICES ASSUME PulseInv, link_handled PROVE Listener!AllStarted
  OBVIOUS
<1>1. /\ event # None /\ event.i = Len(callback_scripts) /\ event' = None
      /\ heap' = [heap EXCEPT ![event.if_name] = None] /\ UNCHANGED <<callback_scripts, children, error>>
  BY DEF link_handled
<1>2. \A i \in DOMAIN callback_scripts : heap'[callback_scripts[i]] = heap[callback_scripts[i]]
  BY <1>1, ScriptFacts DEF PulseInv, TypeOK, VectorsOwned
<1>3. Texts' = Texts
  BY <1>1, <1>2, TextsUntouched
<1>4. Len(Texts) \in Nat /\ event.i = Len(Texts)
  BY <1>1, TextsFacts, LenProperties
<1>5. SubSeq(Texts, event.i + 1, Len(Texts)) = <<>>
  BY <1>4, SubSeqEmpty
<1>6. Change # None /\ Change.todo = SubSeq(Texts, event.i + 1, Len(Texts))
  BY <1>1, ChangeFacts
<1>7. Change' = None
  BY <1>1 DEF Change
<1> QED
  BY <1>1, <1>3, <1>5, <1>6, <1>7, Zenon DEF Listener!AllStarted

LEMMA ListenerStep == PulseInv /\ PulseInv' /\ [Next]_vars => [Listener!Next]_(Listener!vars)
<1> SUFFICES ASSUME PulseInv, PulseInv', [Next]_vars PROVE [Listener!Next]_(Listener!vars)
  OBVIOUS
<1>1. CASE UNCHANGED vars
  BY <1>1 DEF vars, Listener!vars, Texts, Change
<1>2. ASSUME NEW is_add \in BOOLEAN, NEW trailing \in BOOLEAN, NEW text \in Paths,
             update_script(is_add, text, trailing)
      PROVE  Listener!Next
  BY <1>2, CommandOutcome, RefusedMaps, AddedMaps, RemovedMaps DEF Listener!Next
<1>3. CASE unknown_input
  <2>1. Refused
    BY <1>3 DEF unknown_input, Refused
  <2> QED
    BY <2>1, RefusedMaps DEF Listener!Next
<1>4. ASSUME NEW name \in Interfaces, NEW is_up \in BOOLEAN, link_up_down(name, is_up)
      PROVE  Listener!Next
  BY <1>4, EventMaps DEF Listener!Next
<1>5. CASE fork_fails
  BY <1>5, ForkFailureMaps DEF Listener!Next
<1>6. CASE link_handled
  BY <1>6, EndMaps DEF Listener!Next
<1>7. ASSUME NEW pid \in Pids, run_script(pid) PROVE Listener!Next
  BY <1>7, ForkMaps DEF Listener!Next
<1>8. ASSUME NEW pid \in Pids, child_ends(pid) PROVE Listener!Next
  <2>1. Listener!Ends(pid)
    BY <1>8 DEF child_ends, Listener!Ends, Texts, Change
  <2> QED
    BY <2>1 DEF Listener!Next
<1> QED
  BY <1>1, <1>2, <1>3, <1>4, <1>5, <1>6, <1>7, <1>8 DEF Next

\* The plugin's pointers, vectors and loop index behave like the list of scripts
\* it promises, for any scripts, interfaces, vectors and limit.
THEOREM ImplementsListener == Spec => ListenerSpec
<1>1. Spec => Listener!Init
  BY ListenerInit DEF Spec
<1>2. PulseInv /\ PulseInv' /\ [Next]_vars => [Listener!Next]_(Listener!vars)
  BY ListenerStep
<1>3. Spec => [][Next]_vars
  BY DEF Spec
<1> QED
  BY <1>1, <1>2, <1>3, PulseInvariant, PTL DEF ListenerSpec, Listener!Spec
=============================================================================
