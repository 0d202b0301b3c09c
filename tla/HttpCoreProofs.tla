--------------------------- MODULE HttpCoreProofs ---------------------------
(***************************************************************************)
(* What TLAPS proves of HttpCore for every set of clients, devices and     *)
(* calls, every mix of operations and every capacity of the nonce maps.    *)
(***************************************************************************)
EXTENDS HttpCore, SequenceTheorems, TLAPS

-----------------------------------------------------------------------------
\* Types.

Id    == Client \cup {Ip[c] : c \in Client} \cup Device \cup {Address}
Entry == [id : Id, of : Call]

Op == {"nonce", "register", "prepare_upload", "upload", "cancel", "info",
       "prepare_download", "download"}

CallState ==
    [at : {"idle", "sent", "accepted", "half", "answered", "storing", "done"},
     client : Client \cup {None}, op : Op \cup {None}, pin : Device \cup {None}, len : Nat,
     dev : Device \cup {None}, status : Nat, parses : BOOLEAN,
     res : {None, "ok", "other", "status", "reqwest"}, key : Device \cup {None}]

MapsOK ==
    /\ received \in Seq(Entry) /\ generated \in Seq(Entry)
    /\ theirs \in [Client -> Seq(Entry)] /\ ours \in [Client -> Seq(Entry)]

\* The fields of a call are set as it goes along.
CallsOK ==
    /\ call \in [Call -> CallState]
    /\ \A k \in Call :
         /\ call[k].at = "idle" => call[k] = Idle
         /\ call[k].at # "idle" => call[k].client \in Client /\ call[k].op \in Op
         /\ call[k].at \in {"accepted", "half", "answered", "storing"} => call[k].dev \in Device
         /\ call[k].at \in {"half", "storing"} => call[k].op = "nonce"
         /\ call[k].at = "half" => call[k].dev = Core
         /\ call[k].at # "done" => call[k].res = None

TypeOK == cut \in BOOLEAN /\ tls \in BOOLEAN /\ MapsOK /\ CallsOK

-----------------------------------------------------------------------------
\* The caches.

LEMMA DetachElements ==
  ASSUME NEW cache \in Seq(Entry), NEW id
  PROVE  /\ Detach(cache, id) \in Seq(Entry)
         /\ \E g \in [DOMAIN Detach(cache, id) -> DOMAIN cache] :
              /\ \A i \in DOMAIN Detach(cache, id) : Detach(cache, id)[i] = cache[g[i]]
              /\ \A i, j \in DOMAIN Detach(cache, id) : g[i] = g[j] => i = j
              /\ IsCache(cache) => \A i \in DOMAIN Detach(cache, id) : cache[g[i]].id # id
<1> DEFINE at == {i \in DOMAIN cache : cache[i].id = id}
           n == Len(cache)
           d == Detach(cache, id)
<1>0. n \in Nat /\ DOMAIN cache = 1 .. n
  BY LenProperties
<1>1. CASE at = {}
  <2>1. d = cache
    BY <1>1 DEF Detach
  <2> DEFINE g == [i \in DOMAIN cache |-> i]
  <2>2. /\ g \in [DOMAIN d -> DOMAIN cache]
        /\ \A i \in DOMAIN d : d[i] = cache[g[i]]
        /\ \A i, j \in DOMAIN d : g[i] = g[j] => i = j
        /\ \A i \in DOMAIN d : cache[g[i]].id # id
    BY <1>1, <2>1
  <2>3. QED BY <2>1, <2>2
<1>2. CASE at # {}
  <2> DEFINE a == CHOOSE i \in at : TRUE
             lo == SubSeq(cache, 1, a - 1)
             hi == SubSeq(cache, a + 1, n)
             g == [i \in 1 .. n - 1 |-> IF i < a THEN i ELSE i + 1]
  <2>1. a \in 1 .. n /\ cache[a].id = id
    BY <1>0, <1>2
  <2>2. d = lo \o hi
    BY <1>2 DEF Detach, RemoveAt
  <2> HIDE DEF a
  <2>3. \A i \in 1 .. n : cache[i] \in Entry
    BY <1>0, ElementOfSeq
  <2>4. /\ lo \in Seq(Entry) /\ Len(lo) = a - 1
        /\ \A i \in 1 .. a - 1 : lo[i] = cache[i]
    <3>1. /\ 1 \in Int /\ a - 1 \in Int /\ \A i \in 1 .. a - 1 : cache[i] \in Entry
          /\ IF 1 <= a - 1 THEN a - 1 - 1 + 1 = a - 1 ELSE a - 1 = 0
      BY <1>0, <2>1, <2>3
    <3>2. lo \in Seq(Entry)
      BY <3>1, SubSeqProperties
    <3>3. Len(lo) = IF 1 <= a - 1 THEN a - 1 - 1 + 1 ELSE 0
      BY <3>1, SubSeqProperties
    <3>4. \A i \in 1 .. a - 1 - 1 + 1 : lo[i] = cache[1 + i - 1]
      BY <3>1, SubSeqProperties
    <3>5. QED BY <3>1, <3>2, <3>3, <3>4, <2>1
  <2>5. /\ hi \in Seq(Entry) /\ Len(hi) = n - a
        /\ \A i \in 1 .. n - a : hi[i] = cache[i + a]
    <3>1. /\ a + 1 \in Int /\ n \in Int /\ \A i \in a + 1 .. n : cache[i] \in Entry
      BY <1>0, <2>1, <2>3
    <3>2. hi \in Seq(Entry)
      BY <3>1, SubSeqProperties
    <3>3. Len(hi) = IF a + 1 <= n THEN n - (a + 1) + 1 ELSE 0
      BY <3>1, SubSeqProperties
    <3>4. \A i \in 1 .. n - (a + 1) + 1 : hi[i] = cache[a + 1 + i - 1]
      BY <3>1, SubSeqProperties
    <3>5. Len(hi) = n - a
      <4> HIDE DEF hi
      <4>0. \A x, y \in Nat : x <= y =>
               (IF x + 1 <= y THEN y - (x + 1) + 1 ELSE 0) = y - x
        OBVIOUS
      <4>1. (IF a + 1 <= n THEN n - (a + 1) + 1 ELSE 0) = n - a
        <5> HIDE DEF n
        <5>1. QED BY <1>0, <2>1, <4>0
      <4>2. QED BY <3>3, <4>1
    <3>6. ASSUME NEW i \in 1 .. n - a PROVE hi[i] = cache[i + a]
      <4> HIDE DEF hi
      <4>1. i \in 1 .. n - (a + 1) + 1 /\ a + 1 + i - 1 = i + a
        BY <1>0, <2>1
      <4>2. QED BY <3>4, <4>1
    <3>7. QED BY <3>2, <3>5, <3>6
  <2> HIDE DEF lo, hi
  <2>6. /\ d \in Seq(Entry) /\ Len(d) = n - 1
        /\ \A i \in 1 .. n - 1 : d[i] = IF i <= a - 1 THEN lo[i] ELSE hi[i - (a - 1)]
    <3>1. /\ lo \o hi \in Seq(Entry)
          /\ Len(lo \o hi) = Len(lo) + Len(hi)
          /\ \A i \in 1 .. Len(lo) + Len(hi) : (lo \o hi)[i] =
                     IF i <= Len(lo) THEN lo[i] ELSE hi[i - Len(lo)]
      BY <2>4, <2>5, ConcatProperties
    <3>2. Len(lo) + Len(hi) = n - 1
      BY <1>0, <2>1, <2>4, <2>5
    <3>3. QED BY <2>2, <2>4, <3>1, <3>2
  <2>7. DOMAIN d = 1 .. n - 1
    BY <2>6, LenProperties
  <2>8. g \in [1 .. n - 1 -> 1 .. n] /\ \A i \in 1 .. n - 1 : g[i] # a
    BY <1>0, <2>1
  <2>9. \A i, j \in 1 .. n - 1 : g[i] = g[j] => i = j
    BY <1>0, <2>1
  <2>10. \A i \in 1 .. n - 1 : d[i] = cache[g[i]]
    <3> SUFFICES ASSUME NEW i \in 1 .. n - 1 PROVE d[i] = cache[g[i]]
      OBVIOUS
    <3>1. CASE i < a
      BY <3>1, <1>0, <2>1, <2>4, <2>6
    <3>2. CASE ~(i < a)
      <4>1. i - (a - 1) \in 1 .. n - a /\ (i - (a - 1)) + a = i + 1
        BY <3>2, <1>0, <2>1
      <4>2. hi[i - (a - 1)] = cache[i + 1]
        BY <4>1, <2>5
      <4>3. d[i] = hi[i - (a - 1)]
        BY <3>2, <1>0, <2>1, <2>6
      <4>4. g[i] = i + 1
        BY <3>2, <1>0, <2>1
      <4> HIDE DEF g, d
      <4>5. QED BY <4>2, <4>3, <4>4
    <3>3. QED BY <3>1, <3>2
  <2>11. IsCache(cache) => \A i \in 1 .. n - 1 : cache[g[i]].id # id
    BY <1>0, <2>1, <2>8 DEF IsCache
  <2> HIDE DEF g, d
  <2>12. g \in [DOMAIN d -> DOMAIN cache]
    BY <1>0, <2>7, <2>8
  <2>13. /\ \A i \in DOMAIN d : d[i] = cache[g[i]]
         /\ \A i, j \in DOMAIN d : g[i] = g[j] => i = j
         /\ IsCache(cache) => \A i \in DOMAIN d : cache[g[i]].id # id
    BY <2>7, <2>9, <2>10, <2>11
  <2>14. \E h \in [DOMAIN d -> DOMAIN cache] :
            /\ \A i \in DOMAIN d : d[i] = cache[h[i]]
            /\ \A i, j \in DOMAIN d : h[i] = h[j] => i = j
            /\ IsCache(cache) => \A i \in DOMAIN d : cache[h[i]].id # id
    BY <2>12, <2>13
  <2>15. QED BY <2>6, <2>14 DEF d
<1>3. QED BY <1>1, <1>2

\* put keeps the list of a cache in its capacity and with one entry per
\* identifier: every entry is the new one or an older one of another
\* identifier.
LEMMA PutElements ==
  ASSUME NEW cache \in Seq(Entry), NEW id \in Id, NEW k \in Call
  PROVE  /\ Put(cache, id, k) \in Seq(Entry)
         /\ IsCache(cache) => IsCache(Put(cache, id, k))
         /\ IsCache(cache) => \A i \in DOMAIN Put(cache, id, k) :
              \/ Put(cache, id, k)[i] = [id |-> id, of |-> k]
              \/ /\ Put(cache, id, k)[i].id # id
                 /\ \E j \in DOMAIN cache : Put(cache, id, k)[i] = cache[j]
<1> DEFINE d == Detach(cache, id)
           e == [id |-> id, of |-> k]
           all == <<e>> \o d
           n == IF Len(all) > Capacity THEN Capacity ELSE Len(all)
           p == Put(cache, id, k)
<1>1. d \in Seq(Entry)
  BY DetachElements
<1>2. PICK g \in [DOMAIN d -> DOMAIN cache] :
         /\ \A i \in DOMAIN d : d[i] = cache[g[i]]
         /\ \A i, j \in DOMAIN d : g[i] = g[j] => i = j
         /\ IsCache(cache) => \A i \in DOMAIN d : cache[g[i]].id # id
  BY DetachElements
<1>3. p = SubSeq(all, 1, n)
  BY DEF Put
<1> HIDE DEF d, p
<1>4. e \in Entry /\ <<e>> \in Seq(Entry) /\ Len(<<e>>) = 1 /\ <<e>>[1] = e
  BY DEF Entry
<1> HIDE DEF e
<1>5. Len(d) \in Nat /\ DOMAIN d = 1 .. Len(d)
  BY <1>1, LenProperties
<1>6. /\ all \in Seq(Entry) /\ Len(all) = 1 + Len(d)
      /\ \A i \in 1 .. 1 + Len(d) : all[i] = IF i <= 1 THEN <<e>>[i] ELSE d[i - 1]
  BY <1>1, <1>4, ConcatProperties
<1>7. all[1] = e /\ \A i \in 2 .. 1 + Len(d) : i - 1 \in DOMAIN d /\ all[i] = d[i - 1]
  BY <1>4, <1>5, <1>6
<1> HIDE DEF all
<1>8. n \in Nat /\ 1 <= n /\ n <= Capacity /\ n <= 1 + Len(d)
  BY <1>5, <1>6, HttpAssumption
<1> HIDE DEF n
<1>9. /\ p \in Seq(Entry) /\ Len(p) = n
      /\ \A i \in 1 .. n : p[i] = all[i]
  <2>1. 1 \in Int /\ n \in Int /\ \A i \in 1 .. n : all[i] \in Entry
    BY <1>5, <1>6, <1>8, ElementOfSeq
  <2>2. /\ SubSeq(all, 1, n) \in Seq(Entry)
        /\ Len(SubSeq(all, 1, n)) = IF 1 <= n THEN n - 1 + 1 ELSE 0
        /\ \A i \in 1 .. n - 1 + 1 : SubSeq(all, 1, n)[i] = all[1 + i - 1]
    BY <2>1, SubSeqProperties
  <2>3. QED BY <1>3, <1>8, <2>2
<1>10. DOMAIN p = 1 .. n
  BY <1>9, LenProperties
<1>11. \A i \in 1 .. n : \/ i = 1 /\ p[i] = e
                         \/ i \in 2 .. n /\ i - 1 \in DOMAIN d /\ p[i] = d[i - 1]
  <2> SUFFICES ASSUME NEW i \in 1 .. n
               PROVE  \/ i = 1 /\ p[i] = e
                      \/ i \in 2 .. n /\ i - 1 \in DOMAIN d /\ p[i] = d[i - 1]
    OBVIOUS
  <2>1. p[i] = all[i]
    BY <1>9
  <2>2. CASE i = 1
    BY <1>7, <2>1, <2>2
  <2>3. CASE i # 1
    <3>1. i \in 2 .. n /\ i \in 2 .. 1 + Len(d)
      BY <1>5, <1>8, <2>3
    <3>2. QED BY <1>7, <2>1, <3>1
  <2>4. QED BY <2>2, <2>3
<1>12. \A i \in 2 .. n : i - 1 \in DOMAIN d /\ p[i] = cache[g[i - 1]] /\ g[i - 1] \in DOMAIN cache
  <2> SUFFICES ASSUME NEW i \in 2 .. n
               PROVE  i - 1 \in DOMAIN d /\ p[i] = cache[g[i - 1]] /\ g[i - 1] \in DOMAIN cache
    OBVIOUS
  <2>1. i \in 1 .. n /\ i # 1
    BY <1>8
  <2>2. i - 1 \in DOMAIN d /\ p[i] = d[i - 1]
    BY <2>1, <1>11
  <2>3. QED BY <1>2, <2>2
<1>13. e.id = id
  BY DEF e
<1>14. ASSUME IsCache(cache)
       PROVE  \A i \in 1 .. n : \/ p[i] = e
                                \/ p[i].id # id /\ \E j \in DOMAIN cache : p[i] = cache[j]
  BY <1>2, <1>11, <1>12, <1>14
<1>15. ASSUME IsCache(cache), NEW i \in 1 .. n, NEW j \in 1 .. n, p[i].id = p[j].id
       PROVE  i = j
  <2>1. CASE i = 1 \/ j = 1
    BY <2>1, <1>2, <1>8, <1>11, <1>12, <1>13, <1>15
  <2>2. CASE i # 1 /\ j # 1
    <3>1. i \in 2 .. n /\ j \in 2 .. n
      BY <2>2, <1>8
    <3>2. cache[g[i - 1]].id = cache[g[j - 1]].id /\ g[i - 1] \in DOMAIN cache /\ g[j - 1] \in DOMAIN cache
      BY <3>1, <1>12, <1>15
    <3>3. g[i - 1] = g[j - 1]
      BY <3>2, <1>15 DEF IsCache
    <3>4. i - 1 = j - 1
      BY <3>1, <3>3, <1>2, <1>12
    <3>5. QED BY <3>1, <3>4, <1>8
  <2>3. QED BY <2>1, <2>2
<1>16. IsCache(cache) => IsCache(p)
  BY <1>8, <1>9, <1>10, <1>15 DEF IsCache
<1>17. QED BY <1>9, <1>10, <1>14, <1>16 DEF p, e

-----------------------------------------------------------------------------
\* The steps, as far as calls and nonce maps are concerned.

\* A listener or the body of an upload: no call and no map changes.
Quiet == UNCHANGED <<call, mapVars, history>>

\* A call begins; a key to verify is only given to prepare_upload and upload.
Starts(k) ==
    /\ call[k].at = "idle"
    /\ \E c \in Client, op \in Op, len \in Nat : \E pin \in Known(c) :
         /\ pin # None => op \in {"prepare_upload", "upload"}
         /\ call' = [call EXCEPT ![k] = [Idle EXCEPT !.at = "sent", !.client = c, !.op = op,
                                                     !.pin = pin, !.len = len]]
         /\ overlapped' = IF op = "nonce" /\ NonceOpen(c) THEN overlapped \cup {c} ELSE overlapped
    /\ UNCHANGED <<mapVars, cut>>

Connects(k) ==
    /\ call[k].at = "sent"
    /\ \E d \in Device : call' = [call EXCEPT ![k].at = "accepted", ![k].dev = d]
    /\ UNCHANGED <<mapVars, history>>

\* An answer that stores nothing: this server never answers 200 to a nonce so.
Answers(k) ==
    /\ call[k].at = "accepted"
    /\ \E status \in Nat, parses \in BOOLEAN :
         /\ call[k].op = "nonce" /\ call[k].dev = Core => status # 200
         /\ Answer(k, status, parses)
    /\ UNCHANGED <<mapVars, history>>

\* A call returns to Dart without having stored a nonce of its own.
Finishes(k) ==
    /\ call[k].at \in {"sent", "accepted", "half", "answered"}
    /\ \E res \in {"ok", "other", "status", "reqwest"}, key \in Device \cup {None} :
         /\ call' = [call EXCEPT ![k] = [@ EXCEPT !.at = "done", !.res = res, !.key = key,
                                                  !.len = 0, !.status = 0, !.parses = FALSE]]
         /\ res = "ok" => /\ call[k].op # "nonce"
                          /\ tls /\ call[k].pin # None => call[k].dev = call[k].pin
         /\ key # None => res = "ok" /\ call[k].op = "register" /\ key = call[k].dev
    /\ cut' = (cut \/ call[k].at = "half")
    /\ UNCHANGED <<mapVars, overlapped>>

\* The key to verify is one of an earlier answer to register.
PinsKnown ==
    \A k \in Call : call[k].pin # None =>
      /\ call[k].op \in {"prepare_upload", "upload"}
      /\ \E j \in Call : /\ call[j].at = "done" /\ call[j].op = "register"
                         /\ call[j].client = call[k].client
                         /\ call[j].dev = call[k].pin

\* The outcome of up to three checks is "ok", or the error of one that fails.
LEMMA OutcomeCases ==
  ASSUME NEW c, DOMAIN c \subseteq 1 .. 3
  PROVE  \/ Outcome(c) = "ok" /\ \A i \in DOMAIN c : c[i][1]
         \/ \E i \in DOMAIN c : ~c[i][1] /\ Outcome(c) = c[i][2]
<1> DEFINE failed == {i \in DOMAIN c : ~c[i][1]}
<1>1. Outcome(c) = IF failed = {} THEN "ok" ELSE c[Min(failed)][2]
  BY DEF Outcome
<1>2. failed \subseteq 1 .. 3
  OBVIOUS
<1>3. CASE failed = {}
  BY <1>1, <1>3
<1>4. CASE failed # {}
  <2>1. Min(failed) \in failed
    <3> HIDE DEF failed
    <3>1. \E x \in failed : \A y \in failed : x <= y
      <4>1. CASE 1 \in failed
        BY <1>2, <4>1
      <4>2. CASE 1 \notin failed /\ 2 \in failed
        BY <1>2, <4>2
      <4>3. CASE 1 \notin failed /\ 2 \notin failed
        <5>1. \A x \in failed : x = 3
          BY <1>2, <4>3
        <5>2. QED BY <1>4, <5>1
      <4>4. QED BY <4>1, <4>2, <4>3
    <3>2. QED BY <3>1 DEF Min
  <2>2. QED BY <1>1, <1>4, <2>1
<1>5. QED BY <1>3, <1>4

LEMMA ConcatTuples ==
  ASSUME NEW x, NEW y, NEW z
  PROVE  /\ <<x, y>> \o <<>> = <<x, y>>
         /\ <<x, y>> \o <<z>> = <<x, y, z>>
         /\ <<x>> \o <<y>> = <<x, y>>
<1> DEFINE S == {x, y, z}
<1>1. /\ <<>> \in Seq(S) /\ <<x>> \in Seq(S) /\ <<y>> \in Seq(S) /\ <<z>> \in Seq(S)
      /\ <<x, y>> \in Seq(S) /\ <<x, y, z>> \in Seq(S)
  OBVIOUS
<1>2. /\ Len(<<x>>) = 1 /\ Len(<<y>>) = 1 /\ Len(<<z>>) = 1
      /\ Len(<<x, y>>) = 2 /\ Len(<<x, y, z>>) = 3
  OBVIOUS
<1>3. <<x, y>> \o <<>> = <<x, y>>
  BY <1>1, ConcatEmptySeq
<1>4. <<x, y>> \o <<z>> = <<x, y, z>>
  <2> DEFINE c == <<x, y>> \o <<z>>
             d == <<x, y, z>>
  <2>1. /\ c \in Seq(S) /\ Len(c) = 3
        /\ \A i \in 1 .. 3 : c[i] = IF i <= 2 THEN <<x, y>>[i] ELSE <<z>>[i - 2]
    BY <1>1, <1>2, ConcatProperties
  <2> HIDE DEF c
  <2>2. c[1] = d[1] /\ c[2] = d[2] /\ c[3] = d[3]
    BY <2>1
  <2>3. \A i \in 1 .. 3 : c[i] = d[i]
    BY <2>2
  <2>4. QED BY <1>1, <1>2, <2>1, <2>3, SeqEqual DEF c
<1>5. <<x>> \o <<y>> = <<x, y>>
  <2> DEFINE c == <<x>> \o <<y>>
             d == <<x, y>>
  <2>1. /\ c \in Seq(S) /\ Len(c) = 2
        /\ \A i \in 1 .. 2 : c[i] = IF i <= 1 THEN <<x>>[i] ELSE <<y>>[i - 1]
    BY <1>1, <1>2, ConcatProperties
  <2> HIDE DEF c
  <2>2. c[1] = d[1] /\ c[2] = d[2]
    BY <2>1
  <2>3. \A i \in 1 .. 2 : c[i] = d[i]
    BY <2>2
  <2>4. QED BY <1>1, <1>2, <2>1, <2>3, SeqEqual DEF c
<1>6. QED BY <1>3, <1>4, <1>5

\* What prepare_upload and upload check of an answer, in both versions.
LEMMA UploadChecks ==
  ASSUME NEW k \in Call, NEW valid \in BOOLEAN, call[k].op \in {"prepare_upload", "upload"}
  PROVE  \/ Checks(k, valid) = <<Verified(k, valid), Below400(k), Parsed(k)>>
         \/ Checks(k, valid) = <<Verified(k, valid), Below400(k)>>
         \/ Checks(k, valid) = <<Verified(k, valid), Ok200(k)>>
<1>1. CASE call[k].op = "upload"
  BY <1>1 DEF Checks, LsHttpClient_upload, v3_upload, v2_upload
<1>2. CASE call[k].op = "prepare_upload"
  <2>1. Checks(k, valid) =
          <<Verified(k, valid), Below400(k)>> \o (IF NoContent(k) THEN <<>> ELSE <<Parsed(k)>>)
    BY <1>2 DEF Checks, LsHttpClient_prepare_upload, v3_prepare_upload, v2_prepare_upload
  <2>2. /\ \A x, y : <<x, y>> \o <<>> = <<x, y>>
        /\ \A x, y, z : <<x, y>> \o <<z>> = <<x, y, z>>
    BY ConcatTuples, Zenon
  <2>3. QED BY <2>1, <2>2, Zenon
<1>3. QED BY <1>1, <1>2

\* Every error of a check is one of three, none of which is "ok".
LEMMA ChecksType ==
  ASSUME NEW k \in Call, NEW valid \in BOOLEAN, call[k].op \in Op
  PROVE  /\ DOMAIN Checks(k, valid) \subseteq 1 .. 3
         /\ \A i \in DOMAIN Checks(k, valid) :
              Checks(k, valid)[i][2] \in {"other", "status", "reqwest"}
<1> DEFINE c == Checks(k, valid)
           E == {"other", "status", "reqwest"}
<1>1. /\ Verified(k, valid)[2] \in E /\ Below400(k)[2] \in E /\ Parsed(k)[2] \in E
      /\ Ok200(k)[2] \in E /\ Written(k)[2] \in E
  BY DEF Verified, Below400, Parsed, Ok200, Written
<1>2. \/ \E x, y, z : c = <<x, y, z>> /\ x[2] \in E /\ y[2] \in E /\ z[2] \in E
      \/ \E x, y : c = <<x, y>> /\ x[2] \in E /\ y[2] \in E
      \/ c = <<>>
  <2>1. CASE call[k].op = "nonce"
    <3>1. c = <<Ok200(k), Verified(k, valid), Parsed(k)>>
      BY <2>1 DEF Checks, v3_nonce
    <3>2. QED BY <1>1, <3>1
  <2>2. CASE call[k].op = "register"
    <3>1. c = <<Verified(k, valid), Parsed(k)>> \/ c = <<Ok200(k), Verified(k, valid), Parsed(k)>>
      BY <2>2 DEF Checks, LsHttpClient_register, v3_register, v2_register
    <3> HIDE DEF c
    <3>2. QED BY <1>1, <3>1
  <2>3. CASE call[k].op \in {"prepare_upload", "upload"}
    <3>1. \/ c = <<Verified(k, valid), Below400(k), Parsed(k)>>
          \/ c = <<Verified(k, valid), Below400(k)>>
          \/ c = <<Verified(k, valid), Ok200(k)>>
      BY <2>3, UploadChecks
    <3> HIDE DEF c
    <3>2. QED BY <1>1, <3>1
  <2>4. CASE call[k].op = "cancel"
    BY <2>4 DEF Checks, LsHttpClient_cancel, v3_cancel, v2_cancel
  <2>5. CASE call[k].op \in {"info", "prepare_download"}
    <3>1. c = <<Ok200(k), Parsed(k)>>
      BY <2>5 DEF Checks, v2_info, v2_prepare_download
    <3> HIDE DEF c
    <3>2. QED BY <1>1, <3>1
  <2>6. CASE call[k].op = "download"
    <3>1. c = <<Ok200(k)>> \o <<Written(k)>>
      BY <2>6 DEF Checks, v2_download_to_writer, v2_download
    <3>2. \A x, y : <<x>> \o <<y>> = <<x, y>>
      BY ConcatTuples, Zenon
    <3>3. c = <<Ok200(k), Written(k)>>
      BY <3>1, <3>2, Zenon
    <3> HIDE DEF c
    <3>4. QED BY <1>1, <3>3
  <2>7. QED BY <2>1, <2>2, <2>3, <2>4, <2>5, <2>6 DEF Op
<1> HIDE DEF c, E
<1>3. DOMAIN c \subseteq 1 .. 3 /\ \A i \in DOMAIN c : c[i][2] \in E
  BY <1>2
<1>4. QED BY <1>3 DEF c, E

LEMMA OutcomeType ==
  ASSUME NEW k \in Call, NEW valid \in BOOLEAN, call[k].op \in Op
  PROVE  Outcome(Checks(k, valid)) \in {"ok", "other", "status", "reqwest"}
BY ChecksType, OutcomeCases

\* A method that was given a key returns Ok only if the certificate of the
\* device that answered has it.
LEMMA OkMeansVerified ==
  ASSUME NEW k \in Call, NEW valid \in BOOLEAN,
         call[k].op \in {"prepare_upload", "upload"}, call[k].pin # None, tls,
         Outcome(Checks(k, valid)) = "ok"
  PROVE  call[k].dev = call[k].pin
<1> DEFINE c == Checks(k, valid)
<1>1. \A i \in DOMAIN c : c[i][1]
  BY ChecksType, OutcomeCases DEF Op
<1>2. 1 \in DOMAIN c /\ c[1] = Verified(k, valid)
  BY UploadChecks
<1>3. Verified(k, valid)[1]
  BY <1>1, <1>2
<1>4. QED BY <1>3 DEF Verified, verify_cert

-----------------------------------------------------------------------------
\* Every step is one of these, or one of the four that write a nonce map.

LEMMA StartSteps ==
  ASSUME NEW k \in Call,
         \/ BeginNonce(k) \/ RsHttpClient_register(k) \/ RsHttpClient_prepare_upload(k)
         \/ RsHttpClient_upload(k) \/ RsHttpClient_cancel(k) \/ BeginV2(k)
  PROVE  Starts(k) /\ tls' = tls
<1> USE DEF callRest, configVars, Begin, Direct
<1>0. \A c \in Client : None \in Known(c)
  BY DEF Known
<1>1. CASE BeginNonce(k)
  <2>1. PICK c \in Client, len \in NonceLength :
          /\ Direct(k, c, "nonce", len)
          /\ overlapped' = IF NonceOpen(c) THEN overlapped \cup {c} ELSE overlapped
    BY <1>1 DEF BeginNonce
  <2>2. len \in Nat /\ "nonce" \in Op
    BY HttpAssumption DEF Op
  <2>3. QED BY <1>0, <2>1, <2>2 DEF Starts
<1>2. CASE RsHttpClient_register(k) \/ RsHttpClient_cancel(k) \/ BeginV2(k)
  <2>1. PICK c \in Client, op \in Op \ {"nonce"} : Direct(k, c, op, 0) /\ UNCHANGED overlapped
    <3>1. {"register", "cancel", "info", "prepare_download", "download"} \subseteq Op \ {"nonce"}
      BY DEF Op
    <3>2. \E c \in Client : \E op \in {"register", "cancel", "info", "prepare_download", "download"} :
            Direct(k, c, op, 0) /\ UNCHANGED overlapped
      <4> HIDE DEF Direct
      <4>1. CASE RsHttpClient_register(k)
        BY <4>1 DEF RsHttpClient_register
      <4>2. CASE RsHttpClient_cancel(k)
        BY <4>2 DEF RsHttpClient_cancel
      <4>3. CASE BeginV2(k)
        BY <4>3 DEF BeginV2
      <4>4. QED BY <1>2, <4>1, <4>2, <4>3
    <3>3. QED BY <3>1, <3>2
  <2>2. QED BY <1>0, <2>1 DEF Starts
<1>3. CASE RsHttpClient_prepare_upload(k) \/ RsHttpClient_upload(k)
  <2>1. PICK c \in Client, op \in {"prepare_upload", "upload"} : \E pin \in Known(c) :
          Begin(k, c, op, pin, 0) /\ UNCHANGED overlapped
    BY <1>3 DEF RsHttpClient_prepare_upload, RsHttpClient_upload
  <2>2. op \in Op /\ op # "nonce"
    BY DEF Op
  <2>3. QED BY <2>1, <2>2 DEF Starts
<1>4. QED BY <1>1, <1>2, <1>3

LEMMA HandlerSteps ==
  ASSUME TypeOK, NEW k \in Call,
         \/ LegacyOff(k) \/ legacy_register(k) \/ NotFound(k) \/ register(k)
         \/ InvalidNonce(k) \/ ElsewhereAnswers(k)
  PROVE  Answers(k) /\ tls' = tls
<1> USE DEF handlerRest, configVars
<1>1. CASE LegacyOff(k) \/ legacy_register(k) \/ NotFound(k) \/ InvalidNonce(k)
  <2>1. Refuse(k, 400) \/ Refuse(k, 404)
    BY <1>1 DEF LegacyOff, legacy_register, NotFound, InvalidNonce
  <2>2. call[k].at = "accepted"
    BY <1>1 DEF LegacyOff, legacy_register, LegacyRoute, NotFound, InvalidNonce, AtCore
  <2>3. UNCHANGED <<mapVars, history>> /\ tls' = tls
    BY <2>1 DEF Refuse
  <2>4. 400 \in Nat /\ 404 \in Nat /\ 400 # 200 /\ 404 # 200
    OBVIOUS
  <2>5. ASSUME NEW status \in Nat, Refuse(k, status)
        PROVE  \E parses \in BOOLEAN : Answer(k, status, parses)
    <3>1. Answer(k, status, FALSE)
      BY <2>5 DEF Refuse
    <3> WITNESS FALSE \in BOOLEAN
    <3>2. QED BY <3>1
  <2>6. \E status \in Nat : status # 200 /\ \E parses \in BOOLEAN : Answer(k, status, parses)
    BY <2>1, <2>4, <2>5
  <2>7. QED BY <2>2, <2>3, <2>6 DEF Answers
<1>2. CASE register(k)
  <2>1. Answer(k, 200, TRUE)
    BY <1>2 DEF register
  <2>2. \E parses \in BOOLEAN : Answer(k, 200, parses)
    <3> WITNESS TRUE \in BOOLEAN
    <3>1. QED BY <2>1
  <2>3. /\ call[k].at = "accepted" /\ call[k].op = "register" /\ 200 \in Nat
        /\ UNCHANGED <<mapVars, history>> /\ tls' = tls
    BY <1>2 DEF register, AtCore
  <2>4. QED BY <2>2, <2>3 DEF Answers
<1>3. CASE ElsewhereAnswers(k)
  <2>1. call[k].dev # Core
    BY <1>3, HttpAssumption DEF ElsewhereAnswers
  <2>2. PICK status \in {200, 204, 403}, parses \in BOOLEAN : Answer(k, status, parses)
    BY <1>3 DEF ElsewhereAnswers
  <2>3. QED BY <1>3, <2>1, <2>2 DEF ElsewhereAnswers, Answers
<1>4. QED BY <1>1, <1>2, <1>3

LEMMA FinishSteps ==
  ASSUME TypeOK, PinsKnown, NEW k \in Call, HandshakeFails(k) \/ Breaks(k) \/ Returns(k)
  PROVE  Finishes(k) /\ tls' = tls
<1> USE DEF callRest, configVars, history
<1>0. call[k] \in CallState
  BY DEF TypeOK, CallsOK
<1>1. CASE HandshakeFails(k)
  BY <1>1 DEF HandshakeFails, Ends, Finishes, TypeOK
<1>2. CASE Breaks(k)
  BY <1>2 DEF Breaks, Ends, Finishes, TypeOK
<1>3. CASE Returns(k)
  <2>1. PICK valid \in BOOLEAN :
          LET res == Outcome(Checks(k, valid)) IN
          /\ ~(call[k].op = "nonce" /\ res = "ok")
          /\ Ends(k, res, IF res = "ok" THEN KeyOf(k) ELSE None)
    BY <1>3 DEF Returns
  <2> DEFINE res == Outcome(Checks(k, valid))
             key == IF res = "ok" THEN KeyOf(k) ELSE None
  <2>2. call[k].at = "answered" /\ UNCHANGED <<callRest, history>>
    BY <1>3 DEF Returns
  <2>3. call[k].op \in Op \cup {None} /\ call[k].dev \in Device \cup {None}
    BY <1>0 DEF CallState
  <2>4. call[k].op \in Op
    BY <2>2 DEF TypeOK, CallsOK
  <2>5. res \in {"ok", "other", "status", "reqwest"}
    BY <2>4, OutcomeType
  <2>6. res = "ok" /\ tls /\ call[k].pin # None => call[k].dev = call[k].pin
    BY OkMeansVerified DEF PinsKnown
  <2>7. /\ key \in Device \cup {None}
        /\ key # None => res = "ok" /\ call[k].op = "register" /\ key = call[k].dev
    BY <2>3 DEF KeyOf
  <2>8. ~(call[k].op = "nonce" /\ res = "ok") /\ Ends(k, res, key)
    BY <2>1
  <2> HIDE DEF res, key
  <2>9. QED BY <2>2, <2>5, <2>6, <2>7, <2>8 DEF Finishes, Ends, TypeOK
<1>4. QED BY <1>1, <1>2, <1>3

LEMMA Steps ==
  ASSUME TypeOK, PinsKnown, [Next]_vars
  PROVE  /\ tls' = tls
         /\ \/ Quiet
            \/ \E k \in Call : \/ Starts(k) \/ Connects(k) \/ Answers(k) \/ Finishes(k)
                               \/ PutReceived(k) \/ PutGenerated(k)
                               \/ StoreTheirs(k) \/ StoreOurs(k)
<1>1. CASE Serve4 \/ Serve6 \/ Fail4 \/ Fail6 \/ Stop
  BY <1>1 DEF Serve4, Serve6, Fail4, Fail6, Stop, listenerRest, configVars, Quiet
<1>2. ASSUME NEW k \in Call, Add(k) \/ DropSink(k) \/ TakeChunk(k)
      PROVE  Quiet /\ tls' = tls
  BY <1>2 DEF Add, DropSink, TakeChunk, streamRest, configVars, Quiet
<1>3. ASSUME NEW k \in Call, ConnectHere(k) \/ ConnectElsewhere(k)
      PROVE  Connects(k) /\ tls' = tls
  BY <1>3 DEF ConnectHere, ConnectElsewhere, Connects, Device, callRest, configVars
<1>4. ASSUME NEW k \in Call, PutReceived(k) \/ PutGenerated(k) \/ StoreTheirs(k) \/ StoreOurs(k)
      PROVE  tls' = tls
  BY <1>4 DEF PutReceived, PutGenerated, StoreTheirs, StoreOurs, handlerRest, configVars
<1>5. CASE UNCHANGED vars
  BY <1>5 DEF vars, configVars, Quiet
<1>6. QED
  BY <1>1, <1>2, <1>3, <1>4, <1>5, StartSteps, HandlerSteps, FinishSteps DEF Next

-----------------------------------------------------------------------------
\* Types.

LEMMA TypeInit == Init => TypeOK /\ PinsKnown
<1> SUFFICES ASSUME Init PROVE TypeOK /\ PinsKnown
  OBVIOUS
<1>1. MapsOK
  BY EmptySeq DEF Init, MapsOK
<1>2. Idle \in CallState
  BY DEF Idle, CallState
<1>3. \A k \in Call : call[k] = Idle
  BY DEF Init
<1>4. Idle.at = "idle" /\ Idle.res = None /\ Idle.pin = None
  BY DEF Idle
<1>5. call \in [Call -> CallState]
  BY <1>2 DEF Init
<1>6. CallsOK
  BY <1>3, <1>4, <1>5 DEF CallsOK
<1>7. PinsKnown
  BY <1>3, <1>4 DEF PinsKnown
<1>8. QED BY <1>1, <1>6, <1>7 DEF TypeOK, Init

LEMMA Identifiers ==
  ASSUME TypeOK, NEW k \in Call
  PROVE  /\ call[k].client \in Client => identifier(call[k].client) \in Id
         /\ call[k].dev \in Device => to_identifier(k) \in Id
BY DEF identifier, to_identifier, Id

\* What one of the steps does to the call it is about.
CallMoves(k) ==
    \E v \in CallState :
      /\ call' = [call EXCEPT ![k] = v]
      /\ v.at # "idle" /\ v.client \in Client /\ v.op \in Op
      /\ call[k].at # "idle" =>
           v.client = call[k].client /\ v.op = call[k].op /\ v.pin = call[k].pin
      /\ v.at \in {"accepted", "half", "answered", "storing"} => v.dev \in Device
      /\ v.at \in {"half", "storing"} => v.op = "nonce"
      /\ v.at = "half" => v.dev = Core
      /\ v.at # "done" => v.res = None
      /\ call[k].at # "done"

LEMMA StartMoves ==
  ASSUME TypeOK, PinsKnown, NEW k \in Call, Starts(k)
  PROVE  CallMoves(k)
<1>1. PICK c \in Client, op \in Op, len \in Nat : \E pin \in Known(c) :
        call' = [call EXCEPT ![k] = [Idle EXCEPT !.at = "sent", !.client = c, !.op = op,
                                                 !.pin = pin, !.len = len]]
  BY DEF Starts
<1>2. PICK pin \in Known(c) :
        call' = [call EXCEPT ![k] = [Idle EXCEPT !.at = "sent", !.client = c, !.op = op,
                                                 !.pin = pin, !.len = len]]
  BY <1>1
<1>3. pin \in Device \cup {None}
  <2>1. pin = None \/ \E j \in Call : pin = call[j].key
    BY DEF Known
  <2>2. \A j \in Call : call[j].key \in Device \cup {None}
    BY DEF TypeOK, CallsOK, CallState
  <2>3. QED BY <2>1, <2>2
<1> DEFINE v == [Idle EXCEPT !.at = "sent", !.client = c, !.op = op, !.pin = pin, !.len = len]
<1>4. v \in CallState
  BY <1>3 DEF Idle, CallState
<1>5. v.at = "sent" /\ v.client = c /\ v.op = op /\ v.res = None
  BY DEF Idle
<1> HIDE DEF v
<1>6. call' = [call EXCEPT ![k] = v]
  BY <1>2 DEF v
<1>7. call[k].at = "idle"
  BY DEF Starts
<1>8. QED BY <1>4, <1>5, <1>6, <1>7 DEF CallMoves

LEMMA ConnectMoves ==
  ASSUME TypeOK, NEW k \in Call, Connects(k)
  PROVE  CallMoves(k)
<1>1. PICK d \in Device : call' = [call EXCEPT ![k].at = "accepted", ![k].dev = d]
  BY DEF Connects
<1> DEFINE u == call[k]
           v == [u EXCEPT !.at = "accepted", !.dev = d]
<1>2. u \in CallState /\ u.at = "sent" /\ u.client \in Client /\ u.op \in Op /\ u.res = None
  BY DEF Connects, TypeOK, CallsOK
<1>3. call' = [call EXCEPT ![k] = v]
  BY <1>1 DEF TypeOK, CallsOK
<1> HIDE DEF u
<1>4. /\ v \in CallState /\ v.at = "accepted" /\ v.client = u.client /\ v.op = u.op
      /\ v.pin = u.pin /\ v.dev = d /\ v.res = u.res
  BY <1>2 DEF CallState
<1> HIDE DEF v
<1>5. QED BY <1>2, <1>3, <1>4 DEF CallMoves, u

LEMMA AnswerMoves ==
  ASSUME TypeOK, NEW k \in Call, NEW status \in Nat, NEW parses \in BOOLEAN,
         Answer(k, status, parses), call[k].at \in {"accepted", "half"}
  PROVE  CallMoves(k)
<1> DEFINE u == call[k]
           v == [u EXCEPT !.at = "answered", !.status = status, !.parses = parses]
<1>2. /\ u \in CallState /\ u.at \in {"accepted", "half"} /\ u.client \in Client /\ u.op \in Op
      /\ u.res = None /\ u.dev \in Device
  BY DEF TypeOK, CallsOK
<1>3. call' = [call EXCEPT ![k] = v]
  BY DEF TypeOK, CallsOK, Answer
<1> HIDE DEF u
<1>4. /\ v \in CallState /\ v.at = "answered" /\ v.client = u.client /\ v.op = u.op
      /\ v.pin = u.pin /\ v.dev = u.dev /\ v.res = u.res
  BY <1>2, ZenonT(60) DEF CallState
<1> HIDE DEF v
<1>5. QED BY <1>2, <1>3, <1>4 DEF CallMoves, u

LEMMA MoveMoves ==
  ASSUME TypeOK, NEW k \in Call, NEW at \in {"half", "storing"}, Moves(k, at),
         call[k].at \in {"accepted", "answered"}, call[k].op = "nonce",
         at = "half" => call[k].dev = Core
  PROVE  CallMoves(k)
<1> DEFINE u == call[k]
           v == [u EXCEPT !.at = at]
<1>2. /\ u \in CallState /\ u.at \in {"accepted", "answered"} /\ u.client \in Client /\ u.op = "nonce"
      /\ u.res = None /\ u.dev \in Device /\ (at = "half" => u.dev = Core) /\ u.op \in Op
  BY DEF TypeOK, CallsOK
<1>3. call' = [call EXCEPT ![k] = v]
  BY DEF TypeOK, CallsOK, Moves
<1> HIDE DEF u
<1>4. /\ v \in CallState /\ v.at = at /\ v.client = u.client /\ v.op = u.op
      /\ v.pin = u.pin /\ v.dev = u.dev /\ v.res = u.res
  BY <1>2 DEF CallState
<1> HIDE DEF v
<1>5. QED BY <1>2, <1>3, <1>4 DEF CallMoves, u

LEMMA EndMoves ==
  ASSUME TypeOK, NEW k \in Call, call[k].at \notin {"idle", "done"},
         NEW res \in {"ok", "other", "status", "reqwest"}, NEW key \in Device \cup {None},
         call' = [call EXCEPT ![k] = [@ EXCEPT !.at = "done", !.res = res, !.key = key,
                                               !.len = 0, !.status = 0, !.parses = FALSE]]
  PROVE  CallMoves(k)
<1> DEFINE u == call[k]
           v == [u EXCEPT !.at = "done", !.res = res, !.key = key,
                          !.len = 0, !.status = 0, !.parses = FALSE]
<1>2. u \in CallState /\ u.at \notin {"idle", "done"} /\ u.client \in Client /\ u.op \in Op
  BY DEF TypeOK, CallsOK
<1>3. call' = [call EXCEPT ![k] = v]
  BY DEF TypeOK, CallsOK
<1> HIDE DEF u
<1>4. /\ v \in CallState /\ v.at = "done" /\ v.client = u.client /\ v.op = u.op
      /\ v.pin = u.pin /\ v.dev = u.dev /\ v.res = res
  BY <1>2, ZenonT(60) DEF CallState
<1> HIDE DEF v
<1>5. QED BY <1>2, <1>3, <1>4 DEF CallMoves, u

\* A step that moves one call keeps the calls well formed.
LEMMA MovesKeep ==
  ASSUME TypeOK, NEW k \in Call, CallMoves(k)
  PROVE  CallsOK'
<1>1. PICK v \in CallState :
        /\ call' = [call EXCEPT ![k] = v]
        /\ v.at # "idle" /\ v.client \in Client /\ v.op \in Op
        /\ v.at \in {"accepted", "half", "answered", "storing"} => v.dev \in Device
        /\ v.at \in {"half", "storing"} => v.op = "nonce"
        /\ v.at = "half" => v.dev = Core
        /\ v.at # "done" => v.res = None
  BY DEF CallMoves
<1>2. call \in [Call -> CallState]
  BY DEF TypeOK, CallsOK
<1>3. call' \in [Call -> CallState] /\ call'[k] = v /\ \A j \in Call : j # k => call'[j] = call[j]
  BY <1>1, <1>2
<1>4. ASSUME NEW j \in Call
      PROVE  /\ call'[j].at = "idle" => call'[j] = Idle
             /\ call'[j].at # "idle" => call'[j].client \in Client /\ call'[j].op \in Op
             /\ call'[j].at \in {"accepted", "half", "answered", "storing"} => call'[j].dev \in Device
             /\ call'[j].at \in {"half", "storing"} => call'[j].op = "nonce"
             /\ call'[j].at = "half" => call'[j].dev = Core
             /\ call'[j].at # "done" => call'[j].res = None
  <2>1. CASE j = k
    BY <1>1, <1>3, <2>1
  <2>2. CASE j # k
    BY <1>3, <2>2 DEF TypeOK, CallsOK
  <2>3. QED BY <2>1, <2>2
<1>5. QED BY <1>3, <1>4 DEF CallsOK, Idle

\* Every step that is about a call moves it.
LEMMA StepMoves ==
  ASSUME TypeOK, PinsKnown, NEW k \in Call,
         \/ Starts(k) \/ Connects(k) \/ Answers(k) \/ Finishes(k)
         \/ PutReceived(k) \/ PutGenerated(k) \/ StoreTheirs(k) \/ StoreOurs(k)
  PROVE  CallMoves(k)
<1>1. CASE Answers(k)
  <2>1. PICK status \in Nat, parses \in BOOLEAN : Answer(k, status, parses)
    BY <1>1 DEF Answers
  <2>2. call[k].at = "accepted"
    BY <1>1 DEF Answers
  <2>3. QED BY <2>1, <2>2, AnswerMoves
<1>2. CASE Finishes(k)
  <2>1. PICK res \in {"ok", "other", "status", "reqwest"}, key \in Device \cup {None} :
          call' = [call EXCEPT ![k] = [@ EXCEPT !.at = "done", !.res = res, !.key = key,
                                                !.len = 0, !.status = 0, !.parses = FALSE]]
    BY <1>2 DEF Finishes
  <2>2. call[k].at \notin {"idle", "done"}
    BY <1>2 DEF Finishes
  <2>3. QED BY <2>1, <2>2, EndMoves
<1>3. CASE PutReceived(k)
  <2>1. Moves(k, "half") /\ call[k].at = "accepted" /\ call[k].op = "nonce" /\ call[k].dev = Core
    BY <1>3 DEF PutReceived, AtCore
  <2>2. QED BY <2>1, MoveMoves
<1>4. CASE PutGenerated(k)
  <2>1. call[k].at = "half" /\ Answer(k, 200, TRUE)
    BY <1>4 DEF PutGenerated
  <2>2. 200 \in Nat /\ TRUE \in BOOLEAN
    OBVIOUS
  <2>3. QED BY <2>1, <2>2, AnswerMoves
<1>5. CASE StoreTheirs(k)
  <2>1. Moves(k, "storing") /\ call[k].at = "answered" /\ call[k].op = "nonce"
    BY <1>5 DEF StoreTheirs
  <2>2. QED BY <2>1, MoveMoves
<1>6. CASE StoreOurs(k)
  <2>1. call[k].at = "storing" /\ Ends(k, "ok", None)
    BY <1>6 DEF StoreOurs
  <2>2. QED BY <2>1, EndMoves DEF Ends
<1>7. QED BY <1>1, <1>2, <1>3, <1>4, <1>5, <1>6, StartMoves, ConnectMoves

\* Only the four steps that put a nonce change a map, each one map.
LEMMA MapsKeep ==
  ASSUME TypeOK, NEW k \in Call,
         \/ Starts(k) \/ Connects(k) \/ Answers(k) \/ Finishes(k)
         \/ PutReceived(k) \/ PutGenerated(k) \/ StoreTheirs(k) \/ StoreOurs(k)
  PROVE  MapsOK'
<1> DEFINE c == call[k].client
<1>0. MapsOK
  BY DEF TypeOK
<1>1. CASE Starts(k) \/ Connects(k) \/ Answers(k) \/ Finishes(k)
  BY <1>0, <1>1 DEF Starts, Connects, Answers, Finishes, mapVars, MapsOK
<1>2. CASE PutReceived(k)
  <2>1. c \in Client
    BY <1>2 DEF PutReceived, AtCore, TypeOK, CallsOK
  <2>2. Put(received, identifier(c), k) \in Seq(Entry)
    BY <1>0, <2>1, Identifiers, PutElements DEF MapsOK
  <2>3. QED BY <1>0, <1>2, <2>2 DEF PutReceived, MapsOK
<1>3. CASE PutGenerated(k)
  <2>1. c \in Client
    BY <1>3 DEF PutGenerated, TypeOK, CallsOK
  <2>2. Put(generated, identifier(c), k) \in Seq(Entry)
    BY <1>0, <2>1, Identifiers, PutElements DEF MapsOK
  <2>3. QED BY <1>0, <1>3, <2>2 DEF PutGenerated, MapsOK
<1>4. CASE StoreTheirs(k)
  <2>1. c \in Client /\ call[k].dev \in Device
    BY <1>4 DEF StoreTheirs, TypeOK, CallsOK
  <2>2. Put(theirs[c], to_identifier(k), k) \in Seq(Entry)
    BY <1>0, <2>1, Identifiers, PutElements DEF MapsOK
  <2>3. QED BY <1>0, <1>4, <2>1, <2>2 DEF StoreTheirs, MapsOK
<1>5. CASE StoreOurs(k)
  <2>1. c \in Client /\ call[k].dev \in Device
    BY <1>5 DEF StoreOurs, TypeOK, CallsOK
  <2>2. Put(ours[c], to_identifier(k), k) \in Seq(Entry)
    BY <1>0, <2>1, Identifiers, PutElements DEF MapsOK
  <2>3. QED BY <1>0, <1>5, <2>1, <2>2 DEF StoreOurs, MapsOK
<1>6. QED BY <1>1, <1>2, <1>3, <1>4, <1>5

LEMMA TypeStep ==
  ASSUME TypeOK, PinsKnown, [Next]_vars
  PROVE  TypeOK'
<1>1. CASE Quiet
  BY <1>1, Steps DEF Quiet, mapVars, history, TypeOK, MapsOK, CallsOK, Idle
<1>2. ASSUME NEW k \in Call,
             \/ Starts(k) \/ Connects(k) \/ Answers(k) \/ Finishes(k)
             \/ PutReceived(k) \/ PutGenerated(k) \/ StoreTheirs(k) \/ StoreOurs(k)
      PROVE  TypeOK'
  <2>1. CallsOK' /\ MapsOK'
    BY <1>2, StepMoves, MovesKeep, MapsKeep
  <2>2. cut' = cut \/ cut' = (cut \/ call[k].at = "half")
    BY <1>2 DEF Starts, Connects, Answers, Finishes, PutReceived, PutGenerated, StoreTheirs,
                StoreOurs, handlerRest, history
  <2>3. QED BY <2>1, <2>2, Steps DEF TypeOK
<1>3. QED BY <1>1, <1>2, Steps

-----------------------------------------------------------------------------
\* What the steps do to the calls, field by field.

Others(k) == \A j \in Call : j # k => call'[j] = call[j]

Keeps(k) ==
    /\ call'[k].client = call[k].client /\ call'[k].op = call[k].op
    /\ call'[k].pin = call[k].pin

LEMMA StartEffect ==
  ASSUME TypeOK, NEW k \in Call, Starts(k)
  PROVE  /\ Others(k) /\ call[k] = Idle
         /\ \E c \in Client, op \in Op : \E pin \in Known(c) :
              /\ call'[k].client = c /\ call'[k].op = op /\ call'[k].pin = pin
              /\ pin # None => op \in {"prepare_upload", "upload"}
              /\ overlapped' = IF op = "nonce" /\ NonceOpen(c) THEN overlapped \cup {c}
                                                               ELSE overlapped
         /\ call'[k].at = "sent" /\ call'[k].res = None /\ call'[k].key = None
         /\ UNCHANGED <<mapVars, cut>>
<1>1. PICK c \in Client, op \in Op, len \in Nat : \E pin \in Known(c) :
        /\ pin # None => op \in {"prepare_upload", "upload"}
        /\ call' = [call EXCEPT ![k] = [Idle EXCEPT !.at = "sent", !.client = c, !.op = op,
                                                    !.pin = pin, !.len = len]]
        /\ overlapped' = IF op = "nonce" /\ NonceOpen(c) THEN overlapped \cup {c} ELSE overlapped
  BY DEF Starts
<1>2. PICK pin \in Known(c) :
        /\ pin # None => op \in {"prepare_upload", "upload"}
        /\ call' = [call EXCEPT ![k] = [Idle EXCEPT !.at = "sent", !.client = c, !.op = op,
                                                    !.pin = pin, !.len = len]]
        /\ overlapped' = IF op = "nonce" /\ NonceOpen(c) THEN overlapped \cup {c} ELSE overlapped
  BY <1>1
<1> DEFINE v == [Idle EXCEPT !.at = "sent", !.client = c, !.op = op, !.pin = pin, !.len = len]
<1>3. /\ v.at = "sent" /\ v.client = c /\ v.op = op /\ v.pin = pin /\ v.res = None
      /\ v.key = None
  BY DEF Idle
<1> HIDE DEF v
<1>4. call' = [call EXCEPT ![k] = v]
  BY <1>2 DEF v
<1>5. call'[k] = v /\ Others(k)
  BY <1>4 DEF TypeOK, CallsOK, Others
<1>6. call[k] = Idle /\ UNCHANGED <<mapVars, cut>>
  BY DEF Starts, TypeOK, CallsOK
<1>7. QED BY <1>2, <1>3, <1>5, <1>6

LEMMA ConnectEffect ==
  ASSUME TypeOK, NEW k \in Call, Connects(k)
  PROVE  /\ Others(k) /\ Keeps(k) /\ call[k].at = "sent" /\ call'[k].at = "accepted"
         /\ call'[k].res = call[k].res /\ call'[k].key = call[k].key
         /\ UNCHANGED <<mapVars, history>>
<1>1. PICK d \in Device : call' = [call EXCEPT ![k].at = "accepted", ![k].dev = d]
  BY DEF Connects
<1> DEFINE u == call[k]
           v == [u EXCEPT !.at = "accepted", !.dev = d]
<1>2. u \in CallState
  BY DEF TypeOK, CallsOK
<1>3. call' = [call EXCEPT ![k] = v]
  BY <1>1 DEF TypeOK, CallsOK
<1> HIDE DEF u
<1>4. /\ v.at = "accepted" /\ v.client = u.client /\ v.op = u.op /\ v.pin = u.pin
      /\ v.res = u.res /\ v.key = u.key
  BY <1>2 DEF CallState
<1> HIDE DEF v
<1>5. call'[k] = v /\ Others(k)
  BY <1>3 DEF TypeOK, CallsOK, Others
<1>6. QED BY <1>4, <1>5 DEF Keeps, u, Connects

LEMMA AnswerEffect ==
  ASSUME TypeOK, NEW k \in Call, NEW status \in Nat, NEW parses, Answer(k, status, parses)
  PROVE  /\ Others(k) /\ Keeps(k) /\ call'[k].dev = call[k].dev
         /\ call'[k].at = "answered" /\ call'[k].status = status
         /\ call'[k].res = call[k].res /\ call'[k].key = call[k].key
<1> DEFINE u == call[k]
           v == [u EXCEPT !.at = "answered", !.status = status, !.parses = parses]
<1>2. u \in CallState
  BY DEF TypeOK, CallsOK
<1>3. call' = [call EXCEPT ![k] = v]
  BY DEF TypeOK, CallsOK, Answer
<1> HIDE DEF u
<1>4. /\ v.at = "answered" /\ v.client = u.client /\ v.op = u.op /\ v.pin = u.pin
      /\ v.res = u.res /\ v.key = u.key /\ v.dev = u.dev /\ v.status = status
  BY <1>2 DEF CallState
<1> HIDE DEF v
<1>5. call'[k] = v /\ Others(k)
  BY <1>3 DEF TypeOK, CallsOK, Others
<1>6. QED BY <1>4, <1>5 DEF Keeps, u

LEMMA MoveEffect ==
  ASSUME TypeOK, NEW k \in Call, NEW at, Moves(k, at)
  PROVE  /\ Others(k) /\ Keeps(k) /\ call'[k].dev = call[k].dev /\ call'[k].at = at
         /\ call'[k].res = call[k].res /\ call'[k].key = call[k].key
<1> DEFINE u == call[k]
           v == [u EXCEPT !.at = at]
<1>2. u \in CallState
  BY DEF TypeOK, CallsOK
<1>3. call' = [call EXCEPT ![k] = v]
  BY DEF TypeOK, CallsOK, Moves
<1> HIDE DEF u
<1>4. /\ v.at = at /\ v.client = u.client /\ v.op = u.op /\ v.pin = u.pin
      /\ v.res = u.res /\ v.key = u.key /\ v.dev = u.dev
  BY <1>2 DEF CallState
<1> HIDE DEF v
<1>5. call'[k] = v /\ Others(k)
  BY <1>3 DEF TypeOK, CallsOK, Others
<1>6. QED BY <1>4, <1>5 DEF Keeps, u

LEMMA EndEffect ==
  ASSUME TypeOK, NEW k \in Call,
         NEW res \in {"ok", "other", "status", "reqwest"}, NEW key \in Device \cup {None},
         call' = [call EXCEPT ![k] = [@ EXCEPT !.at = "done", !.res = res, !.key = key,
                                               !.len = 0, !.status = 0, !.parses = FALSE]]
  PROVE  /\ Others(k) /\ Keeps(k) /\ call'[k].dev = call[k].dev
         /\ call'[k].at = "done" /\ call'[k].res = res /\ call'[k].key = key
<1> DEFINE u == call[k]
           v == [u EXCEPT !.at = "done", !.res = res, !.key = key,
                          !.len = 0, !.status = 0, !.parses = FALSE]
<1>2. u \in CallState
  BY DEF TypeOK, CallsOK
<1>3. call' = [call EXCEPT ![k] = v]
  BY DEF TypeOK, CallsOK
<1> HIDE DEF u
<1>4. /\ v.at = "done" /\ v.client = u.client /\ v.op = u.op /\ v.pin = u.pin
      /\ v.res = res /\ v.key = key /\ v.dev = u.dev
  BY <1>2 DEF CallState
<1> HIDE DEF v
<1>5. call'[k] = v /\ Others(k)
  BY <1>3 DEF TypeOK, CallsOK, Others
<1>6. QED BY <1>4, <1>5 DEF Keeps, u

\* The same for the steps.
LEMMA AnswersEffect ==
  ASSUME TypeOK, NEW k \in Call, Answers(k)
  PROVE  /\ Others(k) /\ Keeps(k) /\ call'[k].dev = call[k].dev
         /\ call[k].at = "accepted" /\ call'[k].at = "answered"
         /\ call[k].op = "nonce" /\ call[k].dev = Core => call'[k].status # 200
         /\ call'[k].res = call[k].res /\ call'[k].key = call[k].key
         /\ UNCHANGED <<mapVars, history>>
<1>1. PICK status \in Nat, parses \in BOOLEAN :
        /\ call[k].op = "nonce" /\ call[k].dev = Core => status # 200
        /\ Answer(k, status, parses)
  BY DEF Answers
<1>2. call[k].at = "accepted" /\ UNCHANGED <<mapVars, history>>
  BY DEF Answers
<1>3. /\ Others(k) /\ Keeps(k) /\ call'[k].dev = call[k].dev
      /\ call'[k].at = "answered" /\ call'[k].status = status
      /\ call'[k].res = call[k].res /\ call'[k].key = call[k].key
  BY <1>1, AnswerEffect
<1>4. QED BY <1>1, <1>2, <1>3

LEMMA FinishEffect ==
  ASSUME TypeOK, NEW k \in Call, Finishes(k)
  PROVE  /\ Others(k) /\ Keeps(k) /\ call'[k].dev = call[k].dev
         /\ call[k].at \in {"sent", "accepted", "half", "answered"} /\ call'[k].at = "done"
         /\ call'[k].res = "ok" => /\ call[k].op # "nonce"
                                   /\ tls /\ call[k].pin # None => call[k].dev = call[k].pin
         /\ call'[k].key # None => call[k].op = "register" /\ call'[k].key = call[k].dev
         /\ cut' = (cut \/ call[k].at = "half")
         /\ UNCHANGED <<mapVars, overlapped>>
<1>1. PICK res \in {"ok", "other", "status", "reqwest"}, key \in Device \cup {None} :
        /\ call' = [call EXCEPT ![k] = [@ EXCEPT !.at = "done", !.res = res, !.key = key,
                                                 !.len = 0, !.status = 0, !.parses = FALSE]]
        /\ res = "ok" => /\ call[k].op # "nonce"
                         /\ tls /\ call[k].pin # None => call[k].dev = call[k].pin
        /\ key # None => res = "ok" /\ call[k].op = "register" /\ key = call[k].dev
  BY DEF Finishes
<1>2. /\ call[k].at \in {"sent", "accepted", "half", "answered"}
      /\ cut' = (cut \/ call[k].at = "half")
      /\ UNCHANGED <<mapVars, overlapped>>
  BY DEF Finishes
<1>3. call' = [call EXCEPT ![k] = [@ EXCEPT !.at = "done", !.res = res, !.key = key,
                                            !.len = 0, !.status = 0, !.parses = FALSE]]
  BY <1>1
<1>4. /\ Others(k) /\ Keeps(k) /\ call'[k].dev = call[k].dev
      /\ call'[k].at = "done" /\ call'[k].res = res /\ call'[k].key = key
  BY <1>3, EndEffect, ZenonT(60)
<1>5. QED BY <1>1, <1>2, <1>4

LEMMA ReceivedEffect ==
  ASSUME TypeOK, NEW k \in Call, PutReceived(k)
  PROVE  /\ Others(k) /\ Keeps(k) /\ call'[k].dev = call[k].dev /\ call[k].dev = Core
         /\ call[k].at = "accepted" /\ call[k].op = "nonce" /\ call'[k].at = "half"
         /\ call'[k].res = call[k].res /\ call'[k].key = call[k].key
         /\ ReceivedFree
         /\ received' = Put(received, identifier(call[k].client), k)
         /\ UNCHANGED <<generated, theirs, ours, history>>
<1>1. Moves(k, "half")
  BY DEF PutReceived
<1>2. QED BY <1>1, MoveEffect DEF PutReceived, AtCore, handlerRest, history

LEMMA GeneratedEffect ==
  ASSUME TypeOK, NEW k \in Call, PutGenerated(k)
  PROVE  /\ Others(k) /\ Keeps(k) /\ call'[k].dev = call[k].dev
         /\ call[k].at = "half" /\ call'[k].at = "answered" /\ call'[k].status = 200
         /\ call'[k].res = call[k].res /\ call'[k].key = call[k].key
         /\ generated' = Put(generated, identifier(call[k].client), k)
         /\ UNCHANGED <<received, theirs, ours, history>>
<1>0. Answer(k, 200, TRUE)
  BY DEF PutGenerated
<1>1. 200 \in Nat
  OBVIOUS
<1>2. /\ Others(k) /\ Keeps(k) /\ call'[k].dev = call[k].dev
      /\ call'[k].at = "answered" /\ call'[k].status = 200
      /\ call'[k].res = call[k].res /\ call'[k].key = call[k].key
  BY <1>0, <1>1, AnswerEffect
<1>3. QED BY <1>2 DEF PutGenerated, handlerRest, history

LEMMA TheirsEffect ==
  ASSUME TypeOK, NEW k \in Call, StoreTheirs(k)
  PROVE  /\ Others(k) /\ Keeps(k) /\ call'[k].dev = call[k].dev
         /\ call[k].at = "answered" /\ call[k].op = "nonce" /\ call'[k].at = "storing"
         /\ call[k].status = 200
         /\ call'[k].res = call[k].res /\ call'[k].key = call[k].key
         /\ TheirsFree(call[k].client)
         /\ theirs' = [theirs EXCEPT ![call[k].client] = Put(@, to_identifier(k), k)]
         /\ UNCHANGED <<received, generated, ours, history>>
<1>1. Moves(k, "storing") /\ Outcome(v3_nonce(k, TRUE)) = "ok"
  BY DEF StoreTheirs
<1>2. call[k].status = 200
  <2> DEFINE c == v3_nonce(k, TRUE)
             x == Ok200(k)
             y == Verified(k, TRUE)
             z == Parsed(k)
  <2>1. c = <<x, y, z>>
    BY DEF v3_nonce
  <2>2. x[2] # "ok" /\ y[2] # "ok" /\ z[2] # "ok" /\ (x[1] => call[k].status = 200)
    BY DEF Ok200, Verified, Parsed
  <2> HIDE DEF c, x, y, z
  <2>3. DOMAIN c \subseteq 1 .. 3 /\ c[1] = x /\ c[2] = y /\ c[3] = z /\ 1 \in DOMAIN c
    BY <2>1
  <2>4. \A i \in DOMAIN c : c[i][2] # "ok"
    BY <2>2, <2>3
  <2>5. \A i \in DOMAIN c : c[i][1]
    BY <1>1, <2>3, <2>4, OutcomeCases DEF c
  <2>6. QED BY <2>2, <2>3, <2>5
<1>3. /\ Others(k) /\ Keeps(k) /\ call'[k].dev = call[k].dev /\ call'[k].at = "storing"
      /\ call'[k].res = call[k].res /\ call'[k].key = call[k].key
  BY <1>1, MoveEffect
<1>4. QED BY <1>2, <1>3 DEF StoreTheirs, handlerRest, history

LEMMA OursEffect ==
  ASSUME TypeOK, NEW k \in Call, StoreOurs(k)
  PROVE  /\ Others(k) /\ Keeps(k) /\ call'[k].dev = call[k].dev
         /\ call[k].at = "storing" /\ call'[k].at = "done"
         /\ call'[k].res = "ok" /\ call'[k].key = None
         /\ ours' = [ours EXCEPT ![call[k].client] = Put(@, to_identifier(k), k)]
         /\ UNCHANGED <<received, generated, theirs, history>>
<1>1. call' = [call EXCEPT ![k] = [@ EXCEPT !.at = "done", !.res = "ok", !.key = None,
                                            !.len = 0, !.status = 0, !.parses = FALSE]]
  BY DEF StoreOurs, Ends
<1>2. /\ Others(k) /\ Keeps(k) /\ call'[k].dev = call[k].dev
      /\ call'[k].at = "done" /\ call'[k].res = "ok" /\ call'[k].key = None
  BY <1>1, EndEffect
<1>3. QED BY <1>2 DEF StoreOurs, history

-----------------------------------------------------------------------------
\* The inductive invariant.

\* A key that a client has is the one of the device that answered register.
KeysKnown ==
    \A k \in Call : call[k].key # None =>
      call[k].at = "done" /\ call[k].op = "register" /\ call[k].key = call[k].dev

\* An Ok came from the device whose key was verified.
OkVerified ==
    \A k \in Call : (tls /\ call[k].res = "ok" /\ call[k].pin # None) => call[k].dev = call[k].pin

\* Whoever is between the two maps has put its nonce into the first one only.
ServerPaired ==
    /\ IsCache(received)
    /\ \A j, k \in Call : call[j].at = "half" /\ call[k].at = "half" => j = k
    /\ ReceivedFree /\ ~cut => received = generated
    /\ \A k \in Call : call[k].at = "half" /\ ~cut =>
         received = Put(generated, identifier(call[k].client), k)

Storing(c) == {k \in Call : call[k].at = "storing" /\ call[k].client = c}

ClientPaired ==
    \A c \in Client :
      /\ IsCache(theirs[c])
      /\ \A j, k \in Storing(c) : j = k
      /\ Storing(c) = {} => theirs[c] = ours[c]
      /\ \A k \in Storing(c) : theirs[c] = Put(ours[c], to_identifier(k), k)

\* Exchanges of a client that do not overlap come one after the other.
OneOpen ==
    \A c \in Client \ overlapped : \A j, k \in NonceCalls(c) :
      call[j].at # "done" /\ call[k].at # "done" => j = k

\* An exchange with this server whose nonce only the server has.
Pending(k) ==
    /\ call[k].op = "nonce" /\ call[k].dev = Core
    /\ call[k].at = "half" \/ (call[k].at = "answered" /\ call[k].status = 200)

\* From the first put of the server to the last one of the client, the nonce of
\* the client in received_nonce_map is the one of the exchange that is open.
Stored ==
    \A c \in Client \ overlapped : \A k \in NonceCalls(c) :
      Pending(k) \/ (call[k].at = "storing" /\ call[k].dev = Core) =>
        \A i \in DOMAIN received : received[i].id = c => received[i].of = k

\* If no exchange of the client has failed, the client has the nonce of the same
\* exchange as the server, or the server is one exchange ahead.
Agree ==
    \A c \in Client \ overlapped :
      (\A k \in NonceCalls(c) : call[k].at = "done" => call[k].res = "ok") =>
        \A i \in DOMAIN theirs[c], j \in DOMAIN received :
          theirs[c][i].id = Core /\ received[j].id = c =>
            \/ theirs[c][i].of = received[j].of
            \/ received[j].of \in NonceCalls(c) /\ Pending(received[j].of)

IInv ==
    /\ TypeOK /\ PinsKnown /\ KeysKnown /\ OkVerified
    /\ ServerPaired /\ ClientPaired /\ OneOpen /\ (tls => Stored /\ Agree)

-----------------------------------------------------------------------------
\* Keys.

Step(k) ==
    \/ Starts(k) \/ Connects(k) \/ Answers(k) \/ Finishes(k)
    \/ PutReceived(k) \/ PutGenerated(k) \/ StoreTheirs(k) \/ StoreOurs(k)

LEMMA StepEffect ==
  ASSUME TypeOK, NEW k \in Call, Step(k)
  PROVE  /\ Others(k) /\ call[k].at # "done"
         /\ call[k].at = "idle" => Starts(k)
         /\ Starts(k) => call[k] = Idle
         /\ ~Starts(k) => Keeps(k)
<1>0. Starts(k) => call[k] = Idle /\ call[k].at = "idle"
  <2>1. Idle.at = "idle"
    BY DEF Idle
  <2>2. QED BY <2>1, StartEffect
<1>1. CASE Starts(k)
  BY <1>0, <1>1, StartEffect
<1>2. CASE Connects(k)
  BY <1>0, <1>2, ConnectEffect
<1>3. CASE Answers(k)
  BY <1>0, <1>3, AnswersEffect
<1>4. CASE Finishes(k)
  BY <1>0, <1>4, FinishEffect
<1>5. CASE PutReceived(k)
  BY <1>0, <1>5, ReceivedEffect
<1>6. CASE PutGenerated(k)
  BY <1>0, <1>6, GeneratedEffect
<1>7. CASE StoreTheirs(k)
  BY <1>0, <1>7, TheirsEffect
<1>8. CASE StoreOurs(k)
  BY <1>0, <1>8, OursEffect
<1>9. QED BY <1>1, <1>2, <1>3, <1>4, <1>5, <1>6, <1>7, <1>8 DEF Step

LEMMA PinsStep ==
  ASSUME TypeOK, PinsKnown, KeysKnown, NEW k \in Call, Step(k)
  PROVE  PinsKnown'
<1>0. Idle.at = "idle" /\ Idle.pin = None
  BY DEF Idle
<1>1. Others(k) /\ call[k].at # "done"
  BY StepEffect
<1>2. SUFFICES ASSUME NEW l \in Call, call'[l].pin # None
               PROVE  /\ call'[l].op \in {"prepare_upload", "upload"}
                      /\ \E j \in Call : /\ call'[j].at = "done" /\ call'[j].op = "register"
                                         /\ call'[j].client = call'[l].client
                                         /\ call'[j].dev = call'[l].pin
  BY DEF PinsKnown
<1>3. CASE l = k /\ Starts(k)
  <2>1. PICK c \in Client, op \in Op : \E pin \in Known(c) :
          /\ call'[k].client = c /\ call'[k].op = op /\ call'[k].pin = pin
          /\ pin # None => op \in {"prepare_upload", "upload"}
    BY <1>3, StartEffect
  <2>2. PICK j \in Call : call[j].client = c /\ call[j].key = call'[k].pin
    BY <1>2, <1>3, <2>1 DEF Known
  <2>3. call[j].at = "done" /\ call[j].op = "register" /\ call[j].key = call[j].dev
    BY <1>2, <1>3, <2>2 DEF KeysKnown
  <2>4. call'[j] = call[j]
    BY <1>1, <2>3 DEF Others
  <2>5. QED BY <1>2, <1>3, <2>1, <2>2, <2>3, <2>4
<1>4. CASE l # k \/ ~Starts(k)
  <2>1. /\ call'[l].pin = call[l].pin /\ call'[l].op = call[l].op
        /\ call'[l].client = call[l].client
    BY <1>1, <1>4, StepEffect DEF Others, Keeps
  <2>2. PICK j \in Call : /\ call[j].at = "done" /\ call[j].op = "register"
                          /\ call[j].client = call[l].client /\ call[j].dev = call[l].pin
    BY <1>2, <2>1 DEF PinsKnown
  <2>3. call'[j] = call[j]
    BY <1>1, <2>2 DEF Others
  <2>4. QED BY <1>2, <2>1, <2>2, <2>3 DEF PinsKnown
<1>5. QED BY <1>3, <1>4

LEMMA KeysStep ==
  ASSUME TypeOK, PinsKnown, KeysKnown, OkVerified, NEW k \in Call, Step(k), tls' = tls
  PROVE  KeysKnown' /\ OkVerified'
<1> DEFINE K(l) == call'[l].key # None =>
             call'[l].at = "done" /\ call'[l].op = "register" /\ call'[l].key = call'[l].dev
           V(l) == (tls /\ call'[l].res = "ok" /\ call'[l].pin # None)
                      => call'[l].dev = call'[l].pin
<1>0. None # "ok"
  BY HttpAssumption
<1>1. Others(k) /\ call[k].at # "done"
  BY StepEffect
<1>2. call[k].key = None
  BY <1>1 DEF KeysKnown
<1>3. call[k].res = None
  BY <1>1 DEF TypeOK, CallsOK
<1>4. K(k) /\ V(k)
  <2>1. CASE Starts(k)
    BY <1>0, <2>1, StartEffect
  <2>2. CASE Connects(k)
    BY <1>0, <1>2, <1>3, <2>2, ConnectEffect
  <2>3. CASE Answers(k)
    BY <1>0, <1>2, <1>3, <2>3, AnswersEffect
  <2>4. CASE Finishes(k)
    BY <2>4, FinishEffect DEF Keeps
  <2>5. CASE PutReceived(k)
    BY <1>0, <1>2, <1>3, <2>5, ReceivedEffect
  <2>6. CASE PutGenerated(k)
    BY <1>0, <1>2, <1>3, <2>6, GeneratedEffect
  <2>7. CASE StoreTheirs(k)
    BY <1>0, <1>2, <1>3, <2>7, TheirsEffect
  <2>8. CASE StoreOurs(k)
    <3>1. call[k].op = "nonce"
      BY <2>8, OursEffect DEF TypeOK, CallsOK
    <3>2. call[k].pin = None
      BY <3>1 DEF PinsKnown
    <3>3. QED BY <3>2, <2>8, OursEffect DEF Keeps
  <2>9. QED BY <2>1, <2>2, <2>3, <2>4, <2>5, <2>6, <2>7, <2>8 DEF Step
<1>5. ASSUME NEW l \in Call, l # k PROVE K(l) /\ V(l)
  BY <1>1, <1>5 DEF Others, KeysKnown, OkVerified
<1>6. QED BY <1>4, <1>5 DEF KeysKnown, OkVerified

-----------------------------------------------------------------------------
\* The two maps of the server, and of each client.

\* Whoever holds the mutex of received_nonce_map still does, with its
\* identifier; it only gives the mutex up in PutGenerated, or by being dropped.
LEMMA HalfKept ==
  ASSUME TypeOK, NEW k \in Call, Step(k), ~PutReceived(k)
  PROVE  /\ \A j \in Call : call'[j].at = "half" =>
              call[j].at = "half" /\ call'[j].client = call[j].client
         /\ ~PutGenerated(k) /\ ~cut' => \A j \in Call : call[j].at = "half" => call'[j].at = "half"
<1>1. /\ call'[k].at # "half"
      /\ ~PutGenerated(k) /\ ~cut' => call[k].at # "half"
  <2>1. CASE Starts(k)
    BY <2>1, StartEffect DEF Idle
  <2>2. CASE Connects(k)
    BY <2>2, ConnectEffect
  <2>3. CASE Answers(k)
    BY <2>3, AnswersEffect
  <2>4. CASE Finishes(k)
    BY <2>4, FinishEffect
  <2>6. CASE PutGenerated(k)
    BY <2>6, GeneratedEffect
  <2>7. CASE StoreTheirs(k)
    BY <2>7, TheirsEffect
  <2>8. CASE StoreOurs(k)
    BY <2>8, OursEffect
  <2>9. QED BY <2>1, <2>2, <2>3, <2>4, <2>6, <2>7, <2>8 DEF Step
<1>2. QED BY <1>1, StepEffect DEF Others

LEMMA ServerPairedStep ==
  ASSUME TypeOK, ServerPaired, NEW k \in Call, Step(k), tls' = tls
  PROVE  ServerPaired'
<1> DEFINE id(j) == identifier(call[j].client)
           idn(j) == IF tls' THEN call'[j].client ELSE Ip[call'[j].client]
<1>0. /\ IsCache(received)
      /\ \A i, j \in Call : call[i].at = "half" /\ call[j].at = "half" => i = j
      /\ (\A j \in Call : call[j].at # "half") /\ ~cut => received = generated
      /\ \A j \in Call : call[j].at = "half" /\ ~cut => received = Put(generated, id(j), j)
  BY DEF ServerPaired, ReceivedFree
<1>1. SUFFICES /\ IsCache(received')
               /\ \A i, j \in Call : call'[i].at = "half" /\ call'[j].at = "half" => i = j
               /\ (\A j \in Call : call'[j].at # "half") /\ ~cut' => received' = generated'
               /\ \A j \in Call : call'[j].at = "half" /\ ~cut' =>
                    received' = Put(generated', idn(j), j)
  BY DEF ServerPaired, ReceivedFree, identifier, IsCache
<1>2. \A j \in Call : call'[j].client = call[j].client => idn(j) = id(j)
  BY DEF identifier
<1>3. Others(k)
  BY StepEffect
<1> HIDE DEF id, idn
<1>4. CASE PutReceived(k)
  <2>1. /\ Keeps(k) /\ call'[k].at = "half" /\ (\A j \in Call : call[j].at # "half")
        /\ received' = Put(received, id(k), k) /\ generated' = generated /\ cut' = cut
    BY <1>4, ReceivedEffect DEF id, history, ReceivedFree
  <2>2. id(k) \in Id
    BY <1>4, ReceivedEffect, Identifiers DEF id, TypeOK, CallsOK
  <2>3. IsCache(received')
    BY <1>0, <2>1, <2>2, PutElements DEF TypeOK, MapsOK
  <2>4. \A j \in Call : call'[j].at = "half" => j = k
    BY <1>3, <2>1 DEF Others
  <2>5. ~cut' => received' = Put(generated', idn(k), k)
    BY <1>0, <1>2, <2>1 DEF Keeps
  <2>6. QED BY <2>1, <2>3, <2>4, <2>5
<1>5. CASE PutGenerated(k)
  <2>1. /\ call[k].at = "half" /\ call'[k].at # "half" /\ generated' = Put(generated, id(k), k)
        /\ received' = received /\ cut' = cut
    BY <1>5, GeneratedEffect DEF id, history
  <2>2. \A j \in Call : call'[j].at # "half"
    BY <1>0, <1>3, <2>1 DEF Others
  <2>3. QED BY <1>0, <2>1, <2>2
<1>6. CASE ~PutReceived(k) /\ ~PutGenerated(k)
  <2>1. received' = received /\ generated' = generated /\ (cut => cut')
    <3>1. CASE Starts(k) \/ Connects(k) \/ Answers(k) \/ Finishes(k)
      BY <3>1, StartEffect, ConnectEffect, AnswersEffect, FinishEffect DEF mapVars, history
    <3>2. CASE StoreTheirs(k) \/ StoreOurs(k)
      BY <3>2, TheirsEffect, OursEffect DEF history
    <3>3. QED BY <1>6, <3>1, <3>2 DEF Step
  <2>2. \A j \in Call : call'[j].at = "half" => call[j].at = "half" /\ idn(j) = id(j)
    BY <1>2, <1>6, HalfKept
  <2>3. ~cut' => ~cut /\ \A j \in Call : call[j].at = "half" => call'[j].at = "half"
    BY <1>6, <2>1, HalfKept
  <2>4. QED BY <1>0, <2>1, <2>2, <2>3
<1>7. QED BY <1>4, <1>5, <1>6

LEMMA StoringKept ==
  ASSUME TypeOK, NEW k \in Call, Step(k), ~StoreTheirs(k), ~StoreOurs(k)
  PROVE  /\ call[k].at # "storing" /\ call'[k].at # "storing"
         /\ theirs' = theirs /\ ours' = ours
<1>1. CASE Starts(k)
  BY <1>1, StartEffect DEF Idle, mapVars
<1>2. CASE Connects(k)
  BY <1>2, ConnectEffect DEF mapVars
<1>3. CASE Answers(k)
  BY <1>3, AnswersEffect DEF mapVars
<1>4. CASE Finishes(k)
  BY <1>4, FinishEffect DEF mapVars
<1>5. CASE PutReceived(k)
  BY <1>5, ReceivedEffect
<1>6. CASE PutGenerated(k)
  BY <1>6, GeneratedEffect
<1>7. QED BY <1>1, <1>2, <1>3, <1>4, <1>5, <1>6 DEF Step

LEMMA ClientPairedStep ==
  ASSUME TypeOK, ClientPaired, NEW k \in Call, Step(k), tls' = tls
  PROVE  ClientPaired'
<1> DEFINE on(j, c) == call[j].at = "storing" /\ call[j].client = c
           onn(j, c) == call'[j].at = "storing" /\ call'[j].client = c
           id(j) == to_identifier(j)
           idn(j) == IF tls' THEN call'[j].dev ELSE Address
<1>1. SUFFICES ASSUME NEW c \in Client
               PROVE  /\ IsCache(theirs'[c])
                      /\ \A i, j \in Call : onn(i, c) /\ onn(j, c) => i = j
                      /\ (\A j \in Call : ~onn(j, c)) => theirs'[c] = ours'[c]
                      /\ \A j \in Call : onn(j, c) => theirs'[c] = Put(ours'[c], idn(j), j)
  <2>1. /\ \A x \in Client : IsCache(theirs'[x])
        /\ \A x \in Client : \A i, j \in Call : onn(i, x) /\ onn(j, x) => i = j
        /\ \A x \in Client : (\A j \in Call : ~onn(j, x)) => theirs'[x] = ours'[x]
        /\ \A x \in Client : \A j \in Call : onn(j, x) => theirs'[x] = Put(ours'[x], idn(j), j)
    BY <1>1
  <2>2. QED BY <2>1 DEF ClientPaired, Storing, to_identifier, IsCache
<1>0. /\ IsCache(theirs[c])
      /\ \A i, j \in Call : on(i, c) /\ on(j, c) => i = j
      /\ (\A j \in Call : ~on(j, c)) => theirs[c] = ours[c]
      /\ \A j \in Call : on(j, c) => theirs[c] = Put(ours[c], id(j), j)
  BY DEF ClientPaired, Storing
<1>2. \A j \in Call : call'[j].dev = call[j].dev => idn(j) = id(j)
  BY DEF to_identifier
<1>3. Others(k)
  BY StepEffect
<1>4. \A j \in Call : j # k => (onn(j, c) <=> on(j, c)) /\ idn(j) = id(j)
  BY <1>2, <1>3 DEF Others
<1>5. theirs \in [Client -> Seq(Entry)] /\ ours \in [Client -> Seq(Entry)]
  BY DEF TypeOK, MapsOK
<1> HIDE DEF id, idn
<1>6. CASE ~StoreTheirs(k) /\ ~StoreOurs(k)
  <2>1. theirs' = theirs /\ ours' = ours /\ ~on(k, c) /\ ~onn(k, c)
    BY <1>6, StoringKept
  <2> HIDE DEF on, onn
  <2>2. QED BY <1>0, <1>4, <2>1
<1>7. CASE StoreTheirs(k)
  <2>1. /\ call'[k].client = call[k].client /\ idn(k) = id(k) /\ call'[k].at = "storing"
        /\ call[k].at = "answered"
        /\ \A j \in Call : ~on(j, call[k].client)
        /\ theirs' = [theirs EXCEPT ![call[k].client] = Put(@, id(k), k)]
        /\ ours' = ours
    BY <1>2, <1>7, TheirsEffect DEF Keeps, id, TheirsFree
  <2>2. CASE call[k].client # c
    <3>1. theirs'[c] = theirs[c] /\ ~on(k, c) /\ ~onn(k, c)
      BY <1>5, <2>1, <2>2
    <3> HIDE DEF on, onn
    <3>2. QED BY <1>0, <1>4, <2>1, <3>1
  <2>3. CASE call[k].client = c
    <3>1. theirs'[c] = Put(theirs[c], id(k), k) /\ onn(k, c) /\ \A j \in Call : ~on(j, c)
      BY <1>5, <2>1, <2>3
    <3>2. id(k) \in Id
      BY <2>1, Identifiers DEF id, TypeOK, CallsOK
    <3>3. IsCache(theirs'[c])
      BY <1>0, <1>5, <3>1, <3>2, PutElements
    <3> HIDE DEF on, onn
    <3>4. QED BY <1>0, <1>4, <2>1, <3>1, <3>3
  <2>4. QED BY <2>2, <2>3
<1>8. CASE StoreOurs(k)
  <2>1. /\ call[k].at = "storing" /\ call'[k].at # "storing"
        /\ ours' = [ours EXCEPT ![call[k].client] = Put(@, id(k), k)]
        /\ theirs' = theirs
    BY <1>8, OursEffect DEF id
  <2>2. CASE call[k].client # c
    <3>1. ours'[c] = ours[c] /\ ~on(k, c) /\ ~onn(k, c)
      BY <1>5, <2>1, <2>2
    <3> HIDE DEF on, onn
    <3>2. QED BY <1>0, <1>4, <2>1, <3>1
  <2>3. CASE call[k].client = c
    <3>1. ours'[c] = Put(ours[c], id(k), k) /\ ~onn(k, c) /\ on(k, c)
      BY <1>5, <2>1, <2>3
    <3> HIDE DEF on, onn
    <3>2. \A j \in Call : ~onn(j, c)
      BY <1>0, <1>4, <3>1
    <3>3. QED BY <1>0, <2>1, <3>1, <3>2
  <2>4. QED BY <2>2, <2>3
<1>9. QED BY <1>6, <1>7, <1>8

-----------------------------------------------------------------------------
\* Exchanges one after the other.

LEMMA OneOpenStep ==
  ASSUME TypeOK, OneOpen, NEW k \in Call, Step(k)
  PROVE  OneOpen' /\ overlapped \subseteq overlapped'
<1> DEFINE open(j, c) == call[j].client = c /\ call[j].op = "nonce" /\ call[j].at # "done"
           openn(j, c) == call'[j].client = c /\ call'[j].op = "nonce" /\ call'[j].at # "done"
<1>1. overlapped \subseteq overlapped'
  <2>1. CASE Starts(k)
    BY <2>1, StartEffect
  <2>2. CASE Connects(k) \/ Answers(k) \/ Finishes(k)
    BY <2>2, ConnectEffect, AnswersEffect, FinishEffect DEF history
  <2>3. CASE PutReceived(k) \/ PutGenerated(k) \/ StoreTheirs(k) \/ StoreOurs(k)
    BY <2>3, ReceivedEffect, GeneratedEffect, TheirsEffect, OursEffect DEF history
  <2>4. QED BY <2>1, <2>2, <2>3 DEF Step
<1>2. SUFFICES ASSUME NEW c \in Client \ overlapped', NEW i \in Call, NEW j \in Call,
                      openn(i, c), openn(j, c)
               PROVE  i = j
  BY <1>1 DEF OneOpen, NonceCalls
<1>3. \A x, y \in Call : open(x, c) /\ open(y, c) => x = y
  BY <1>1 DEF OneOpen, NonceCalls
<1>4. \A x \in Call : x # k /\ openn(x, c) => open(x, c)
  BY StepEffect DEF Others
<1>5. ~Starts(k) /\ openn(k, c) => open(k, c)
  BY StepEffect DEF Keeps
<1>6. Starts(k) /\ openn(k, c) => \A x \in Call : ~open(x, c)
  <2> SUFFICES ASSUME Starts(k), openn(k, c), NEW x \in Call, open(x, c) PROVE FALSE
    OBVIOUS
  <2>1. overlapped' = IF "nonce" = "nonce" /\ NonceOpen(c) THEN overlapped \cup {c} ELSE overlapped
    BY StartEffect
  <2>2. NonceOpen(c)
    BY DEF NonceOpen
  <2>3. QED BY <2>1, <2>2
<1> HIDE DEF open, openn
<1>7. QED BY <1>2, <1>3, <1>4, <1>5, <1>6

\* An exchange that is pending, or that the client is about to store.
Live(k) == Pending(k) \/ (call[k].at = "storing" /\ call[k].dev = Core)

LEMMA LiveKept ==
  ASSUME TypeOK, NEW k \in Call, Step(k), ~PutReceived(k)
  PROVE  /\ received' = received
         /\ Live(k)' => Live(k) /\ Keeps(k)
         /\ Pending(k) => PutGenerated(k) \/ StoreTheirs(k) \/ Finishes(k)
<1> USE DEF Live, Pending, Keeps
<1>1. CASE Starts(k)
  BY <1>1, StartEffect DEF Idle, mapVars
<1>2. CASE Connects(k)
  BY <1>2, ConnectEffect DEF mapVars
<1>3. CASE Answers(k)
  BY <1>3, AnswersEffect DEF mapVars
<1>4. CASE Finishes(k)
  BY <1>4, FinishEffect DEF mapVars
<1>5. CASE PutGenerated(k)
  <2>1. call[k].op = "nonce" /\ call[k].dev = Core
    BY <1>5, GeneratedEffect DEF TypeOK, CallsOK
  <2>2. QED BY <1>5, <2>1, GeneratedEffect
<1>6. CASE StoreTheirs(k)
  BY <1>6, TheirsEffect
<1>7. CASE StoreOurs(k)
  BY <1>7, OursEffect
<1>8. QED BY <1>1, <1>2, <1>3, <1>4, <1>5, <1>6, <1>7 DEF Step

\* PutReceived replaces the nonce of its client, and of no other.
LEMMA ReceivedEntries ==
  ASSUME TypeOK, ServerPaired, tls, NEW k \in Call, PutReceived(k), NEW i \in DOMAIN received'
  PROVE  \/ received'[i].id = call[k].client /\ received'[i].of = k
         \/ /\ received'[i].id # call[k].client
            /\ \E j \in DOMAIN received : received'[i] = received[j]
<1> DEFINE c == call[k].client
<1>1. received' = Put(received, c, k)
  BY ReceivedEffect DEF identifier
<1>2. received \in Seq(Entry) /\ IsCache(received)
  BY DEF TypeOK, MapsOK, ServerPaired
<1>3. c \in Id
  BY ReceivedEffect DEF TypeOK, CallsOK, Id
<1>4. \/ received'[i] = [id |-> c, of |-> k]
      \/ received'[i].id # c /\ \E j \in DOMAIN received : received'[i] = received[j]
  BY <1>1, <1>2, <1>3, PutElements
<1>5. QED BY <1>4

LEMMA StoredStep ==
  ASSUME TypeOK, ServerPaired, OneOpen, Stored, tls, NEW k \in Call, Step(k)
  PROVE  Stored'
<1>1. SUFFICES ASSUME NEW c \in Client \ overlapped', NEW l \in Call,
                      call'[l].client = c, call'[l].op = "nonce", Live(l)',
                      NEW i \in DOMAIN received', received'[i].id = c
               PROVE  received'[i].of = l
  BY DEF Stored, NonceCalls, Live
<1>2. c \in Client \ overlapped
  BY OneOpenStep
<1>3. Others(k)
  BY StepEffect
<1>4. \A x \in Call : call[x].client = c /\ call[x].op = "nonce" /\ Live(x) =>
        \A j \in DOMAIN received : received[j].id = c => received[j].of = x
  BY <1>2 DEF Stored, NonceCalls, Live
<1>5. \A x \in Call : x # k /\ Live(x)' => Live(x)
  BY <1>3 DEF Others, Live, Pending
<1>6. CASE PutReceived(k)
  <2>1. CASE l = k
    BY <1>1, <1>6, <2>1, ReceivedEntries, ReceivedEffect DEF Keeps
  <2>2. CASE l # k
    <3>1. call[l].client = c /\ call[l].op = "nonce" /\ Live(l)
      BY <1>1, <1>3, <1>5, <2>2 DEF Others
    <3>2. call[l].at # "done"
      BY <3>1 DEF Live, Pending
    <3>3. call[k].op = "nonce" /\ call[k].at # "done"
      BY <1>6, ReceivedEffect
    <3>4. call[k].client # c
      BY <1>2, <2>2, <3>1, <3>2, <3>3 DEF OneOpen, NonceCalls
    <3>5. \E j \in DOMAIN received : received'[i] = received[j]
      BY <1>1, <1>6, <3>4, ReceivedEntries
    <3>6. QED BY <1>1, <1>4, <3>1, <3>5
  <2>3. QED BY <2>1, <2>2
<1>7. CASE ~PutReceived(k)
  <2>1. received' = received
    BY <1>7, LiveKept
  <2>2. call[l].client = c /\ call[l].op = "nonce" /\ Live(l)
    <3>1. CASE l = k
      BY <1>1, <1>7, <3>1, LiveKept DEF Keeps
    <3>2. CASE l # k
      BY <1>1, <1>3, <1>5, <3>2 DEF Others
    <3>3. QED BY <3>1, <3>2
  <2>3. QED BY <1>1, <1>4, <2>1, <2>2
<1>8. QED BY <1>6, <1>7

AllOk(c) == \A k \in NonceCalls(c) : call[k].at = "done" => call[k].res = "ok"

\* The server is one exchange ahead.
Ahead(c, k) == k \in NonceCalls(c) /\ Pending(k)

LEMMA AgreeStep ==
  ASSUME TypeOK, ServerPaired, ClientPaired, OneOpen, Stored, Agree, tls,
         NEW k \in Call, Step(k)
  PROVE  Agree'
<1> DEFINE N(x, c) == /\ x \in Call /\ call'[x].client = c /\ call'[x].op = "nonce"
                      /\ call'[x].dev = Core
                      /\ \/ call'[x].at = "half"
                         \/ call'[x].at = "answered" /\ call'[x].status = 200
<1>1. SUFFICES ASSUME NEW c \in Client \ overlapped', AllOk(c)',
                      NEW i \in DOMAIN theirs'[c], NEW j \in DOMAIN received',
                      theirs'[c][i].id = Core, received'[j].id = c
               PROVE  theirs'[c][i].of = received'[j].of \/ N(received'[j].of, c)
  BY DEF Agree, AllOk, NonceCalls, Pending
<1>2. c \in Client \ overlapped
  BY OneOpenStep
<1>3. Others(k) /\ call[k].at # "done"
  BY StepEffect
<1>4. AllOk(c)
  BY <1>1, <1>3 DEF AllOk, NonceCalls, Others
<1>5. \A x \in DOMAIN theirs[c], y \in DOMAIN received :
        theirs[c][x].id = Core /\ received[y].id = c =>
          theirs[c][x].of = received[y].of \/ Ahead(c, received[y].of)
  BY <1>2, <1>4 DEF Agree, AllOk, Ahead
<1>6. \A x : x # k /\ Ahead(c, x) => N(x, c)
  BY <1>3 DEF Others, Ahead, NonceCalls, Pending
<1> HIDE DEF N
<1>7. CASE PutReceived(k)
  <2>1. theirs' = theirs
    BY <1>7, ReceivedEffect
  <2>2. CASE received'[j].id = call[k].client /\ received'[j].of = k
    <3>1. N(k, c)
      BY <1>1, <1>7, <2>2, ReceivedEffect DEF Keeps, N
    <3>2. QED BY <2>2, <3>1
  <2>3. CASE \E y \in DOMAIN received : received'[j] = received[y]
    <3>1. PICK y \in DOMAIN received : received'[j] = received[y]
      BY <2>3
    <3>2. theirs[c][i].of = received[y].of \/ Ahead(c, received[y].of)
      BY <1>1, <1>5, <2>1, <3>1
    <3>3. ~Ahead(c, k)
      BY <1>7, ReceivedEffect DEF Ahead, Pending
    <3>4. QED BY <1>6, <2>1, <3>1, <3>2, <3>3
  <2>4. QED BY <1>1, <1>7, <2>2, <2>3, ReceivedEntries
<1>8. CASE ~PutReceived(k) /\ ~StoreTheirs(k)
  <2>1. theirs' = theirs
    <3>1. CASE Starts(k) \/ Connects(k) \/ Answers(k) \/ Finishes(k)
      BY <3>1, StartEffect, ConnectEffect, AnswersEffect, FinishEffect DEF mapVars
    <3>2. CASE PutGenerated(k) \/ StoreOurs(k)
      BY <3>2, GeneratedEffect, OursEffect
    <3>3. QED BY <1>8, <3>1, <3>2 DEF Step
  <2>2. received' = received
    BY <1>8, LiveKept
  <2>3. theirs[c][i].of = received[j].of \/ Ahead(c, received[j].of)
    BY <1>1, <1>5, <2>1, <2>2
  <2>4. Ahead(c, k) => N(k, c)
    <3> SUFFICES ASSUME Ahead(c, k) PROVE N(k, c)
      OBVIOUS
    <3>1. Pending(k) /\ call[k].client = c /\ call[k].op = "nonce"
      BY DEF Ahead, NonceCalls
    <3>2. CASE PutGenerated(k)
      BY <3>1, <3>2, GeneratedEffect DEF Pending, Keeps, N
    <3>3. CASE Finishes(k)
      <4>1. call'[k].client = c /\ call'[k].op = "nonce" /\ call'[k].at = "done" /\ call'[k].res # "ok"
        BY <3>1, <3>3, FinishEffect DEF Keeps
      <4>2. QED BY <1>1, <4>1 DEF AllOk, NonceCalls
    <3>4. QED BY <1>8, <3>1, <3>2, <3>3, LiveKept
  <2>5. QED BY <1>6, <2>1, <2>2, <2>3, <2>4
<1>9. CASE StoreTheirs(k)
  <2> DEFINE d == call[k].client
  <2>1. /\ call[k].at = "answered" /\ call[k].op = "nonce" /\ call[k].status = 200
        /\ theirs' = [theirs EXCEPT ![d] = Put(@, call[k].dev, k)]
        /\ received' = received
    BY <1>9, TheirsEffect DEF to_identifier
  <2>2. d \in Client /\ call[k].dev \in Device /\ call[k].dev \in Id
    BY <2>1 DEF TypeOK, CallsOK, Id
  <2>3. theirs \in [Client -> Seq(Entry)] /\ IsCache(theirs[c])
    BY <1>2 DEF TypeOK, MapsOK, ClientPaired
  <2>4. CASE d # c
    <3>1. theirs'[c] = theirs[c]
      BY <2>1, <2>3, <2>4
    <3>2. theirs[c][i].of = received[j].of \/ Ahead(c, received[j].of)
      BY <1>1, <1>5, <2>1, <3>1
    <3>3. ~Ahead(c, k)
      BY <2>4 DEF Ahead, NonceCalls
    <3>4. QED BY <1>6, <2>1, <3>1, <3>2, <3>3
  <2>5. CASE d = c
    <3>1. theirs'[c] = Put(theirs[c], call[k].dev, k) /\ theirs[c] \in Seq(Entry)
      BY <1>2, <2>1, <2>3, <2>5
    <3>2. \/ theirs'[c][i] = [id |-> call[k].dev, of |-> k]
          \/ /\ theirs'[c][i].id # call[k].dev
             /\ \E x \in DOMAIN theirs[c] : theirs'[c][i] = theirs[c][x]
      BY <1>1, <2>2, <2>3, <3>1, PutElements
    <3>3. CASE theirs'[c][i] = [id |-> call[k].dev, of |-> k]
      <4>1. theirs'[c][i].of = k /\ call[k].dev = Core
        BY <1>1, <3>3
      <4>2. k \in NonceCalls(c) /\ Pending(k)
        BY <2>1, <2>5, <4>1 DEF NonceCalls, Pending
      <4>3. received[j].of = k
        BY <1>1, <1>2, <2>1, <4>2 DEF Stored
      <4>4. QED BY <2>1, <4>1, <4>3
    <3>4. CASE /\ theirs'[c][i].id # call[k].dev
               /\ \E x \in DOMAIN theirs[c] : theirs'[c][i] = theirs[c][x]
      <4>1. PICK x \in DOMAIN theirs[c] : theirs'[c][i] = theirs[c][x]
        BY <3>4
      <4>2. call[k].dev # Core
        BY <1>1, <3>4
      <4>3. theirs[c][x].of = received[j].of \/ Ahead(c, received[j].of)
        BY <1>1, <1>5, <2>1, <4>1
      <4>4. ~Ahead(c, received[j].of)
        <5> SUFFICES ASSUME Ahead(c, received[j].of) PROVE FALSE
          OBVIOUS
        <5>1. received[j].of \in NonceCalls(c) /\ call[received[j].of].at # "done"
          BY DEF Ahead, Pending
        <5>2. k \in NonceCalls(c) /\ call[k].at # "done"
          BY <2>1, <2>5 DEF NonceCalls
        <5>3. received[j].of = k
          BY <1>2, <5>1, <5>2 DEF OneOpen
        <5>4. QED BY <4>2, <5>3 DEF Ahead, Pending
      <4>5. QED BY <2>1, <4>1, <4>3, <4>4
    <3>5. QED BY <3>2, <3>3, <3>4
  <2>6. QED BY <2>4, <2>5
<1>10. QED BY <1>7, <1>8, <1>9

-----------------------------------------------------------------------------
\* The theorems.

LEMMA InvInit == Init => IInv
<1> SUFFICES ASSUME Init PROVE IInv
  OBVIOUS
<1>1. TypeOK /\ PinsKnown
  BY TypeInit
<1>2. \A k \in Call : call[k] = Idle
  BY DEF Init
<1>3. /\ Idle.at = "idle" /\ Idle.res = None /\ Idle.pin = None /\ Idle.key = None
      /\ Idle.op = None /\ Idle.client = None
  BY DEF Idle
<1>4. \A c \in Client : NonceCalls(c) = {} /\ Storing(c) = {}
  BY <1>2, <1>3, HttpAssumption DEF NonceCalls, Storing
<1>5. KeysKnown /\ OkVerified
  BY <1>2, <1>3 DEF KeysKnown, OkVerified
<1>6. received = <<>> /\ generated = <<>> /\ \A c \in Client : theirs[c] = <<>> /\ ours[c] = <<>>
  BY DEF Init
<1>7. IsCache(<<>>)
  BY HttpAssumption DEF IsCache
<1>8. ServerPaired
  BY <1>2, <1>3, <1>6, <1>7 DEF ServerPaired
<1>9. ClientPaired
  BY <1>4, <1>6, <1>7 DEF ClientPaired
<1>10. OneOpen /\ Stored
  BY <1>4 DEF OneOpen, Stored
<1>11. Agree
  BY <1>6 DEF Agree
<1>12. QED BY <1>1, <1>5, <1>8, <1>9, <1>10, <1>11 DEF IInv

LEMMA InvStep == IInv /\ [Next]_vars => IInv'
<1> SUFFICES ASSUME IInv, [Next]_vars PROVE IInv'
  OBVIOUS
<1>1. /\ TypeOK /\ PinsKnown /\ KeysKnown /\ OkVerified
      /\ ServerPaired /\ ClientPaired /\ OneOpen /\ (tls => Stored /\ Agree)
  BY DEF IInv
<1>2. tls' = tls /\ (Quiet \/ \E k \in Call : Step(k))
  BY <1>1, Steps DEF Step
<1>3. TypeOK'
  BY <1>1, TypeStep
<1>4. CASE Quiet
  <2>1. UNCHANGED <<call, received, generated, theirs, ours, overlapped, cut, tls>>
    BY <1>2, <1>4 DEF Quiet, mapVars, history
  <2>2. PinsKnown' /\ KeysKnown' /\ OkVerified'
    BY <1>1, <2>1 DEF PinsKnown, KeysKnown, OkVerified
  <2>3. ServerPaired'
    BY <1>1, <2>1 DEF ServerPaired, ReceivedFree, identifier, IsCache
  <2>4. ClientPaired'
    BY <1>1, <2>1 DEF ClientPaired, Storing, to_identifier, IsCache
  <2>5. OneOpen'
    BY <1>1, <2>1 DEF OneOpen, NonceCalls
  <2>6. tls' => Stored' /\ Agree'
    BY <1>1, <2>1 DEF Stored, Agree, NonceCalls, Pending
  <2>7. QED BY <1>3, <2>2, <2>3, <2>4, <2>5, <2>6 DEF IInv
<1>5. ASSUME NEW k \in Call, Step(k) PROVE IInv'
  <2>1. PinsKnown' /\ KeysKnown' /\ OkVerified'
    BY <1>1, <1>2, <1>5, PinsStep, KeysStep
  <2>2. ServerPaired' /\ ClientPaired' /\ OneOpen'
    BY <1>1, <1>2, <1>5, ServerPairedStep, ClientPairedStep, OneOpenStep
  <2>3. tls' => Stored' /\ Agree'
    BY <1>1, <1>2, <1>5, StoredStep, AgreeStep
  <2>4. QED BY <1>3, <2>1, <2>2, <2>3 DEF IInv
<1>6. QED BY <1>2, <1>4, <1>5

LEMMA InvAlways == Spec => []IInv
BY InvInit, InvStep, PTL DEF Spec

\* Types: a call has what its stage has set, a map has entries.
THEOREM TypeCorrect == Spec => []TypeOK
<1>1. IInv => TypeOK
  BY DEF IInv
<1>2. QED BY <1>1, InvAlways, PTL

\* While nobody holds the first mutex, the two nonce maps of the server, and
\* those of a client, hold the nonces of the same exchanges in the same order.
THEOREM PairedHolds == Spec => []Paired
<1>1. IInv => Paired
  <2> SUFFICES ASSUME IInv PROVE Paired
    OBVIOUS
  <2>1. \A c \in Client : TheirsFree(c) => Storing(c) = {}
    BY DEF TheirsFree, Storing
  <2>2. QED BY <2>1 DEF IInv, ServerPaired, ClientPaired, Paired
<1>2. QED BY <1>1, InvAlways, PTL

\* After exchanges that came one after the other and succeeded, the client and
\* the server have the nonces of the same one.
THEOREM SequentialAgreeHolds == Spec => []SequentialAgree
<1>1. IInv => SequentialAgree
  <2> SUFFICES ASSUME IInv, NEW c \in Client \ overlapped, tls,
                      \A k \in NonceCalls(c) : call[k].res = "ok",
                      NEW i \in DOMAIN theirs[c], NEW j \in DOMAIN received,
                      theirs[c][i].id = Core, received[j].id = c
               PROVE  theirs[c][i].of = received[j].of
    BY DEF SequentialAgree
  <2>1. None # "ok"
    BY HttpAssumption
  <2>2. \A k \in NonceCalls(c) : call[k].at = "done"
    BY <2>1 DEF IInv, TypeOK, CallsOK, NonceCalls
  <2>3. \/ theirs[c][i].of = received[j].of
        \/ received[j].of \in NonceCalls(c) /\ Pending(received[j].of)
    BY DEF IInv, Agree
  <2>4. QED BY <2>2, <2>3 DEF Pending
<1>2. QED BY <1>1, InvAlways, PTL

\* With the key of an answer to register, an Ok comes from the device that
\* answered register.
THEOREM SameDeviceHolds == Spec => []SameDevice
<1>1. IInv => SameDevice
  BY DEF IInv, PinsKnown, OkVerified, SameDevice
<1>2. QED BY <1>1, InvAlways, PTL

\* Only the IPv4 listener or the stop signal ends the server.
THEOREM Ipv4KeepsServingHolds == Spec => []Ipv4KeepsServing
<1>1. Init => Ipv4KeepsServing
  BY DEF Init, Ipv4KeepsServing
<1>2. Ipv4KeepsServing /\ [Next]_vars => Ipv4KeepsServing'
  <2> SUFFICES ASSUME Ipv4KeepsServing, [Next]_vars PROVE Ipv4KeepsServing'
    OBVIOUS
  <2> USE DEF Ipv4KeepsServing
  <2>1. CASE Serve4 \/ Serve6 \/ Fail4 \/ Fail6 \/ Stop
    BY <2>1 DEF Serve4, Serve6, Fail4, Fail6, Stop
  <2>2. ASSUME NEW k \in Call,
               \/ BeginNonce(k) \/ RsHttpClient_register(k) \/ RsHttpClient_prepare_upload(k)
               \/ RsHttpClient_upload(k) \/ RsHttpClient_cancel(k) \/ BeginV2(k)
        PROVE  UNCHANGED serverVars
    BY <2>2 DEF BeginNonce, RsHttpClient_register, RsHttpClient_prepare_upload,
                RsHttpClient_upload, RsHttpClient_cancel, BeginV2, Direct, Begin, callRest
  <2>3. ASSUME NEW k \in Call, Add(k) \/ DropSink(k) \/ TakeChunk(k)
        PROVE  UNCHANGED serverVars
    BY <2>3 DEF Add, DropSink, TakeChunk, streamRest
  <2>4. ASSUME NEW k \in Call, ConnectHere(k) \/ ConnectElsewhere(k) \/ HandshakeFails(k)
                               \/ Breaks(k) \/ Returns(k)
        PROVE  UNCHANGED serverVars
    BY <2>4 DEF ConnectHere, ConnectElsewhere, HandshakeFails, Breaks, Returns, callRest
  <2>5. ASSUME NEW k \in Call,
               \/ LegacyOff(k) \/ legacy_register(k) \/ NotFound(k) \/ register(k)
               \/ InvalidNonce(k) \/ ElsewhereAnswers(k)
        PROVE  UNCHANGED serverVars
    <3>1. CASE LegacyOff(k) \/ legacy_register(k) \/ NotFound(k) \/ InvalidNonce(k)
      <4>1. Refuse(k, 400) \/ Refuse(k, 404)
        BY <3>1 DEF LegacyOff, legacy_register, NotFound, InvalidNonce
      <4>2. QED BY <4>1 DEF Refuse, handlerRest
    <3>2. CASE register(k) \/ ElsewhereAnswers(k)
      BY <3>2 DEF register, ElsewhereAnswers, handlerRest
    <3>3. QED BY <2>5, <3>1, <3>2
  <2>6. ASSUME NEW k \in Call,
               PutReceived(k) \/ PutGenerated(k) \/ StoreTheirs(k) \/ StoreOurs(k)
        PROVE  UNCHANGED serverVars
    BY <2>6 DEF PutReceived, PutGenerated, StoreTheirs, StoreOurs, handlerRest
  <2>7. CASE UNCHANGED vars
    BY <2>7 DEF vars, serverVars
  <2>8. UNCHANGED serverVars => Ipv4KeepsServing'
    BY DEF serverVars
  <2>9. QED BY <2>1, <2>2, <2>3, <2>4, <2>5, <2>6, <2>7, <2>8 DEF Next
<1>3. QED BY <1>1, <1>2, PTL DEF Spec

=============================================================================
