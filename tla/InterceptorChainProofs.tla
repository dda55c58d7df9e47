------------------------ MODULE InterceptorChainProofs ------------------------
(***************************************************************************)
(* TLAPS proofs about InterceptorChain, for every set of middlewares that  *)
(* may be enabled.  The argument: a call has one verdict, found by the one *)
(* goroutine that goes down the chain; the error main carries up behind it *)
(* is of that verdict, or the timeout's; a link records its code when main *)
(* passes it on the way up, which it does once; and the two ways from an   *)
(* error to a code differ for the errors of a context alone, which only a  *)
(* handler that returned can have put there.                               *)
(***************************************************************************)
EXTENDS InterceptorChain, TLAPS

(* g is on its way to the handler, or in it. *)
Descending(g) == phase[g] \in {"enter", "before", "handling", "handled"}

(* The worker has not come to its end. *)
WorkerRuns == phase["worker"] \notin {"off", "done", "recovered"}

(* main has an error to carry up. *)
Returned == phase["main"] \in {"up", "after", "done"}

(* Where each goroutine can be: main stays above the timeout if there is   *)
(* one, the worker below it.                                               *)
PlaceInv ==
    /\ at["main"] \in Present \cup {0} /\ at["worker"] \in Present \cup {0}
    /\ "timeout" \in enabled => at["main"] <= 8
    /\ at["worker"] # 0 => "timeout" \in enabled /\ at["worker"] > 8
    /\ at["worker"] = 0 <=> ~WorkerRuns
    /\ phase["main"] \notin {"off", "recovered"}
    /\ phase["worker"] \notin {"wait", "after"}
    /\ Descending("main") => at["main"] # 0
    /\ \A g \in Goroutines :
          /\ phase[g] \in {"handling", "handled"} => at[g] = 10
          /\ phase[g] \in {"before", "up", "panic"} => at[g] < 10
    /\ phase["main"] = "wait" => at["main"] = 8
    /\ phase["main"] = "after" => at["main"] = 1
    /\ phase["main"] = "panic" => at["main"] >= 2
    /\ phase["main"] = "done" => at["main"] = 0

(* Which positions of the two goroutines go together. *)
TogetherInv ==
    /\ Descending("main") => phase["worker"] = "off"
    /\ phase["main"] = "wait" => phase["worker"] # "off"
    /\ WorkerRuns => phase["main"] = "wait" \/ timedOut
    /\ timedOut => Returned /\ err["main"] = "Canceled" /\ "timeout" \in enabled
    /\ phase["main"] = "panic" => panicked # "no"

(* The errors that may be carried up for what became of the call.          *)
Carried ==
    IF panicked # "no" THEN {PanicError(panicked)}
    ELSE IF served # "no" THEN {"OK", "HandlerError"} \cup Raw
    ELSE IF rejected # {} THEN {"Unauthenticated", "ResourceExhausted"}
    ELSE {}

(* The verdict is open while a goroutine descends.  The error that is      *)
(* carried up tells it.                                                    *)
VerdictInv ==
    /\ Descending("main") \/ Descending("worker") =>
           served = "no" /\ rejected = {} /\ panicked = "no"
    /\ panicked # "no" => served # "no"
    /\ served # "no" => rejected = {}
    /\ phase["worker"] \in {"panic", "recovered"} => panicked # "no"
    /\ phase["worker"] \in {"up", "done"} =>
           panicked = "no" /\ err["worker"] \in Carried
    /\ Returned /\ ~timedOut => err["main"] \in Carried

(* A link has recorded nothing until main passes it on its way up, and     *)
(* then what it makes of main's error, unless a panic skipped it.          *)
RecordInv ==
    /\ logged = IF "log" \in enabled /\ at["main"] = 0
                  THEN <<StatusCode(err["main"])>> ELSE <<>>
    /\ at["main"] >= 3 \/ Descending("main") => metric = <<>>
    /\ Returned /\ (panicked # "no" => timedOut) =>
          /\ "prom" \in enabled /\ at["main"] < 3 =>
                metric = <<StatusCode(err["main"])>>
          /\ "trace" \in enabled /\ at["main"] < 4 => span = SpanEnd(err["main"])
    /\ Returned /\ panicked # "no" /\ ~timedOut /\ "log" \in enabled => counted
    /\ answer = IF phase["main"] = "done" THEN ServerCode(err["main"]) ELSE "none"

(* A context has a payload map as soon as one link above has passed it on. *)
PayloadInv ==
    /\ \A g \in Goroutines :
          (Descending(g) \/ phase[g] = "wait") /\ ~payload[g] =>
              \A i \in Present : i < at[g] => ~PassesPayload(Chain[i])
    /\ EntryReachesHandler

(* Who is inside of an access of the payload map. *)
AccessInv ==
    /\ access["main"] # "none" => phase["main"] \in {"before", "handling", "after"}
    /\ access["main"] = "write" => phase["main"] # "after"
    /\ access["worker"] # "none" => phase["worker"] \in {"before", "handling"}

(* The inductive invariant. *)
IInv ==
    /\ TypeOK
    /\ PlaceInv
    /\ TogetherInv
    /\ VerdictInv
    /\ RecordInv
    /\ PayloadInv
    /\ AccessInv

-----------------------------------------------------------------------------
(* Links. *)

LEMMA ChainLinks ==
    /\ Len(Chain) = 10 /\ DOMAIN Chain = 1..10
    /\ Chain[1] = "log" /\ Chain[2] = "panic" /\ Chain[3] = "prom"
    /\ Chain[4] = "trace" /\ Chain[5] = "jwt" /\ Chain[6] = "meta"
    /\ Chain[7] = "auth" /\ Chain[8] = "timeout" /\ Chain[9] = "ratelimit"
    /\ Chain[10] = "handler"
BY DEF Chain

LEMMA TimeoutPlace == TimeoutLink = 8
<1>1. \A i \in 1..10 : Chain[i] = "timeout" <=> i = 8
  BY ChainLinks
<1> QED  BY <1>1, ChainLinks DEF TimeoutLink

(* The links of a configuration: panic and the handler always. *)
LEMMA PresentLinks ==
    ASSUME enabled \subseteq Optional
    PROVE  /\ Present \subseteq 1..10 /\ 2 \in Present /\ 10 \in Present
           /\ 1 \in Present <=> "log" \in enabled
           /\ 3 \in Present <=> "prom" \in enabled
           /\ 4 \in Present <=> "trace" \in enabled
           /\ 8 \in Present <=> "timeout" \in enabled
BY ChainLinks DEF Present

LEMMA BelowIsNext ==
    ASSUME enabled \subseteq Optional, NEW i \in 0..9
    PROVE  /\ Below(i) \in Present /\ Below(i) > i
           /\ \A k \in Present : k > i => Below(i) <= k
<1>1. \E j \in Present : j > i /\ \A k \in Present : k > i => j <= k
  BY PresentLinks
<1> QED  BY <1>1 DEF Below

LEMMA AboveIsNext ==
    ASSUME enabled \subseteq Optional, NEW i \in 1..10
    PROVE  /\ Above(i) \in Present \cup {0} /\ Above(i) < i
           /\ \A k \in Present : k < i => k <= Above(i)
<1>1. CASE \E j \in Present : j < i
  <2>1. \E j \in Present : j < i /\ \A k \in Present : k < i => k <= j
    BY <1>1, PresentLinks
  <2> QED  BY <1>1, <2>1 DEF Above
<1>2. CASE ~ \E j \in Present : j < i
  BY <1>2 DEF Above
<1> QED  BY <1>1, <1>2

(* What a step from link i needs to know of the chain. *)
LEMMA Links ==
    ASSUME enabled \subseteq Optional, NEW i \in Present
    PROVE  /\ i \in 1..10
           /\ Chain[i] = "log" <=> i = 1
           /\ Chain[i] = "panic" <=> i = 2
           /\ Chain[i] = "prom" <=> i = 3
           /\ Chain[i] = "trace" <=> i = 4
           /\ Chain[i] = "timeout" <=> i = 8
           /\ Chain[i] = "handler" <=> i = 10
           /\ Chain[i] \in Guards <=> i \in {5, 7, 9}
BY PresentLinks, ChainLinks DEF Guards

LEMMA Climb ==
    ASSUME enabled \subseteq Optional, NEW i \in Present
    PROVE  /\ Above(i) \in Present \cup {0} /\ Above(i) \in 0..9 /\ Above(i) < i
           /\ i = 2 => Above(i) = IF "log" \in enabled THEN 1 ELSE 0
           /\ i > 2 => Above(i) >= 2
           /\ "prom" \in enabled /\ i > 3 => Above(i) >= 3
           /\ "trace" \in enabled /\ i > 4 => Above(i) >= 4
           /\ "timeout" \in enabled /\ i > 8 => Above(i) >= 8
BY PresentLinks, AboveIsNext

LEMMA Descend ==
    ASSUME enabled \subseteq Optional, NEW i \in Present, i # 10
    PROVE  /\ Below(i) \in Present /\ Below(i) \in 2..10 /\ Below(i) > i
           /\ \A k \in Present : k < Below(i) => k <= i
           /\ "timeout" \in enabled /\ i < 8 => Below(i) <= 8
<1>1. i \in 1..9 /\ Present \subseteq 1..10
  BY PresentLinks
<1>2. /\ Below(i) \in Present /\ Below(i) > i
      /\ \A k \in Present : k > i => Below(i) <= k
  BY <1>1, BelowIsNext
<1>3. Below(i) \in 2..10
  <2>1. \A b \in 1..10 : b > i => b \in 2..10
    BY <1>1
  <2> QED  BY <1>1, <1>2, <2>1
<1>4. \A k \in Present : k < Below(i) => k <= i
  BY <1>1, <1>2, <1>3
<1>5. "timeout" \in enabled /\ i < 8 => Below(i) <= 8
  BY <1>2, PresentLinks
<1> QED  BY <1>2, <1>3, <1>4, <1>5

-----------------------------------------------------------------------------
(* Steps. *)

LEMMA InitInv == Init => IInv
<1> SUFFICES ASSUME Init PROVE IInv
  OBVIOUS
<1>1. enabled \subseteq Optional
  BY DEF Init
<1>2. /\ Below(0) \in Present /\ Below(0) \in 1..2
      /\ \A k \in Present : k >= Below(0)
  BY <1>1, PresentLinks, BelowIsNext
<1>3. TypeOK
  <2>1. at \in [Goroutines -> 0..Len(Chain)]
    BY <1>2, ChainLinks DEF Init
  <2>2. <<>> \in Seq(Codes)
    OBVIOUS
  <2>3. rejected \subseteq Guards
    BY DEF Init
  <2> QED  BY <1>1, <2>1, <2>2, <2>3 DEF Init, TypeOK
<1>4. PlaceInv
  BY <1>2 DEF Init, PlaceInv, WorkerRuns, Descending, Goroutines
<1>5. TogetherInv /\ AccessInv
  BY DEF Init, TogetherInv, AccessInv, WorkerRuns, Descending, Goroutines
<1>6. VerdictInv
  BY DEF Init, VerdictInv, Returned, Goroutines
<1>7. RecordInv
  BY <1>2 DEF Init, RecordInv, Returned, Goroutines
<1>8. PayloadInv
  BY <1>2, PresentLinks, <1>1 DEF Init, PayloadInv, EntryReachesHandler, Descending, Goroutines
<1> QED  BY <1>3, <1>4, <1>5, <1>6, <1>7, <1>8 DEF IInv

LEMMA Where ==
    ASSUME IInv, NEW g \in Goroutines, at[g] # 0
    PROVE  /\ enabled \subseteq Optional
           /\ at[g] \in Present /\ at[g] \in 1..10
           /\ at[g] # 8 \/ g = "main"
           /\ g = "worker" => at[g] \in 9..10 /\ "timeout" \in enabled
BY PresentLinks, SMTT(30) DEF IInv, TypeOK, PlaceInv, Goroutines

(* A step within a link. *)
LEMMA EnterInv == ASSUME IInv, NEW g \in Goroutines, Enter(g) PROVE IInv'
<1> USE DEF IInv, config, records
<1>0. at[g] # 0
  BY DEF Enter, PlaceInv, WorkerRuns, Descending, Goroutines
<1>1. enabled \subseteq Optional /\ at[g] \in Present /\ at[g] \in 1..9
  BY <1>0, Where, Links DEF Enter, Link
<1>3. Present' = Present
  BY DEF Enter, Present
<1>4. TypeOK'
  BY DEF TypeOK, Enter, Goroutines
<1>5. PlaceInv'
  BY <1>1, <1>3 DEF TypeOK, PlaceInv, Enter, WorkerRuns, Descending, Goroutines
<1>6. TogetherInv' /\ AccessInv'
  BY DEF TypeOK, TogetherInv, AccessInv, Enter, WorkerRuns, Returned, Descending, Goroutines
<1>7. VerdictInv'
  BY DEF TypeOK, VerdictInv, Carried, Enter, Returned, Descending, Goroutines
<1>8. RecordInv'
  BY DEF TypeOK, RecordInv, SpanEnd, Enter, Returned, Descending, Goroutines
<1>9. PayloadInv'
  BY <1>3 DEF TypeOK, PayloadInv, EntryReachesHandler, PassesPayload, Enter, Descending, Goroutines
<1> QED  BY <1>4, <1>5, <1>6, <1>7, <1>8, <1>9

LEMMA HandlerWriteInv == ASSUME IInv, NEW g \in Goroutines, HandlerWrite(g) PROVE IInv'
<1> USE DEF IInv, config, records
<1>0. at[g] # 0
  BY DEF HandlerWrite, PlaceInv, WorkerRuns, Descending, Goroutines
<1>1. at[g] = 10
  BY <1>0, Where, Links DEF HandlerWrite, Link
<1>3. Present' = Present
  BY DEF HandlerWrite, Present
<1>4. TypeOK'
  BY DEF TypeOK, HandlerWrite, Goroutines
<1>5. PlaceInv'
  BY <1>1, <1>3 DEF TypeOK, PlaceInv, HandlerWrite, WorkerRuns, Descending, Goroutines
<1>6. TogetherInv' /\ AccessInv'
  BY DEF TypeOK, TogetherInv, AccessInv, HandlerWrite, WorkerRuns, Returned, Descending, Goroutines
<1>7. VerdictInv'
  BY DEF TypeOK, VerdictInv, Carried, HandlerWrite, Returned, Descending, Goroutines
<1>8. RecordInv'
  BY DEF TypeOK, RecordInv, SpanEnd, HandlerWrite, Returned, Descending, Goroutines
<1>9. PayloadInv'
  BY <1>3 DEF TypeOK, PayloadInv, EntryReachesHandler, PassesPayload, HandlerWrite, Descending, Goroutines
<1> QED  BY <1>4, <1>5, <1>6, <1>7, <1>8, <1>9

LEMMA HandlerWrittenInv == ASSUME IInv, NEW g \in Goroutines, HandlerWritten(g) PROVE IInv'
<1> USE DEF IInv, config, records
<1>3. Present' = Present
  BY DEF HandlerWritten, Present
<1>4. TypeOK'
  BY DEF TypeOK, HandlerWritten, Goroutines
<1>5. PlaceInv'
  BY <1>3 DEF TypeOK, PlaceInv, HandlerWritten, WorkerRuns, Descending, Goroutines
<1>6. TogetherInv' /\ AccessInv'
  BY DEF TypeOK, TogetherInv, AccessInv, HandlerWritten, WorkerRuns, Returned, Descending, Goroutines
<1>7. VerdictInv'
  BY DEF TypeOK, VerdictInv, Carried, HandlerWritten, Returned, Descending, Goroutines
<1>8. RecordInv'
  BY DEF TypeOK, RecordInv, SpanEnd, HandlerWritten, Returned, Descending, Goroutines
<1>9. PayloadInv'
  BY <1>3 DEF TypeOK, PayloadInv, EntryReachesHandler, PassesPayload, HandlerWritten, Descending, Goroutines
<1> QED  BY <1>4, <1>5, <1>6, <1>7, <1>8, <1>9

LEMMA PassInv == ASSUME IInv, NEW g \in Goroutines, Pass(g) PROVE IInv'
<1> USE DEF IInv, config
<1>0. at[g] # 0
  BY DEF Pass, PlaceInv, WorkerRuns, Descending, Goroutines
<1>1. enabled \subseteq Optional /\ at[g] \in Present /\ at[g] \in 1..9 /\ at[g] # 8
  BY <1>0, Where, Links DEF Pass, Link, PlaceInv
<1>2. /\ Below(at[g]) \in Present /\ Below(at[g]) \in 2..10 /\ Below(at[g]) > at[g]
      /\ \A k \in Present : k < Below(at[g]) => k <= at[g]
      /\ "timeout" \in enabled /\ at[g] < 8 => Below(at[g]) <= 8
  BY <1>1, Descend
<1>3. Present' = Present /\ \A link : PassesPayload(link)' = PassesPayload(link)
  BY DEF Pass, Present, PassesPayload
<1>4. TypeOK'
  BY <1>2, ChainLinks DEF TypeOK, Pass, Down, Goroutines
<1>5. PlaceInv'
  BY <1>1, <1>2, <1>3 DEF TypeOK, PlaceInv, Pass, Down, WorkerRuns, Descending, Goroutines
<1>6. TogetherInv' /\ AccessInv'
  BY DEF TypeOK, TogetherInv, AccessInv, Pass, Down, WorkerRuns, Returned, Descending, Goroutines
<1>7. VerdictInv'
  BY DEF TypeOK, VerdictInv, Carried, Pass, Down, Returned, Descending, Goroutines
<1>8. RecordInv'
  <2>1. g = "worker" => UNCHANGED span
    BY <1>0, <1>1, Where, Links DEF Pass, Link
  <2>2. CASE g = "worker"
    BY <2>1, <2>2 DEF TypeOK, RecordInv, SpanEnd, Pass, Down, Returned, Descending, Goroutines
  <2>3. CASE g = "main"
    BY <1>1, <1>2, <2>3 DEF TypeOK, PlaceInv, RecordInv, Pass, Down, Returned, Descending, Goroutines
  <2> QED  BY <2>2, <2>3 DEF Goroutines
<1>9. PayloadInv'
  <2>1. /\ at' = [at EXCEPT ![g] = Below(at[g])]
        /\ phase[g] = "before" /\ phase' = [phase EXCEPT ![g] = "enter"]
        /\ payload' = [payload EXCEPT ![g] = @ \/ PassesPayload(Chain[at[g]])]
    BY <1>0 DEF Pass, Down, Link
  <2>2. \A i \in Present : i < Below(at[g]) => i < at[g] \/ i = at[g]
    BY <1>1, <1>2, PresentLinks
  <2>3. ~payload'[g] => \A i \in Present : i < Below(at[g]) => ~PassesPayload(Chain[i])
    BY <2>1, <2>2 DEF TypeOK, PayloadInv, Descending
  <2>4. \A h \in Goroutines : (Descending(h)' \/ phase'[h] = "wait") /\ ~payload'[h] =>
            \A i \in Present : i < at'[h] => ~PassesPayload(Chain[i])
    BY <2>1, <2>3 DEF TypeOK, PayloadInv, Descending
  <2>5. EntryReachesHandler'
    BY DEF PayloadInv, EntryReachesHandler, Pass
  <2> QED  BY <1>3, <2>4, <2>5 DEF PayloadInv
<1> QED  BY <1>4, <1>5, <1>6, <1>7, <1>8, <1>9

(* A step up to the next link: main gets to the client in the end, the     *)
(* worker to the timeout.                                                  *)
LEMMA MainUp ==
    ASSUME IInv, at["main"] # 0, NEW c, Up("main", c), UNCHANGED enabled
    PROVE  /\ at' = [at EXCEPT !["main"] = Above(at["main"])]
           /\ phase' = [phase EXCEPT !["main"] = "up"]
           /\ err' = [err EXCEPT !["main"] = c]
           /\ PlaceInv'
<1> USE DEF IInv
<1>1. enabled \subseteq Optional /\ at["main"] \in Present /\ at["main"] \in 1..10
  BY Where DEF Goroutines
<1>2. Above(at["main"]) \in Present \cup {0} /\ Above(at["main"]) \in 0..9
      /\ Above(at["main"]) < at["main"]
  BY <1>1, Climb
<1>3. /\ at' = [at EXCEPT !["main"] = Above(at["main"])]
      /\ phase' = [phase EXCEPT !["main"] = "up"]
      /\ err' = [err EXCEPT !["main"] = c]
  BY DEF Up
<1>4. Present' = Present
  BY DEF Present
<1>5. PlaceInv'
  BY <1>1, <1>2, <1>3, <1>4 DEF TypeOK, PlaceInv, WorkerRuns, Descending, Goroutines
<1> QED  BY <1>3, <1>5

LEMMA WorkerUp ==
    ASSUME IInv, at["worker"] # 0, NEW c, Up("worker", c), UNCHANGED enabled
    PROVE  /\ \/ /\ at' = [at EXCEPT !["worker"] = 0]
                 /\ phase' = [phase EXCEPT !["worker"] = "done"]
              \/ /\ at' = [at EXCEPT !["worker"] = 9]
                 /\ phase' = [phase EXCEPT !["worker"] = "up"]
           /\ err' = [err EXCEPT !["worker"] = c]
           /\ PlaceInv'
<1> USE DEF IInv
<1>1. /\ enabled \subseteq Optional /\ at["worker"] \in Present
      /\ at["worker"] \in 9..10 /\ "timeout" \in enabled
  BY Where DEF Goroutines
<1>2. Above(at["worker"]) \in {8, 9} /\ Above(at["worker"]) \in Present \cup {0}
  BY <1>1, Climb
<1>3. /\ \/ /\ at' = [at EXCEPT !["worker"] = 0]
            /\ phase' = [phase EXCEPT !["worker"] = "done"]
         \/ /\ at' = [at EXCEPT !["worker"] = 9] /\ 9 \in Present
            /\ phase' = [phase EXCEPT !["worker"] = "up"]
      /\ err' = [err EXCEPT !["worker"] = c]
  BY <1>2, TimeoutPlace DEF Up
<1>4. Present' = Present
  BY DEF Present
<1>5. PlaceInv'
  BY <1>1, <1>3, <1>4 DEF TypeOK, PlaceInv, WorkerRuns, Descending, Goroutines
<1> QED  BY <1>3, <1>5

(* A panic unwinds main no further than to the link that recovers it.      *)
LEMMA MainUnwinds ==
    ASSUME IInv, at["main"] > 2, Unwind("main"), UNCHANGED enabled
    PROVE  /\ at' = [at EXCEPT !["main"] = Above(at["main"])]
           /\ Above(at["main"]) \in 2..9
           /\ "prom" \in enabled /\ at["main"] > 3 => Above(at["main"]) >= 3
           /\ "trace" \in enabled /\ at["main"] > 4 => Above(at["main"]) >= 4
           /\ phase' = [phase EXCEPT !["main"] = "panic"]
           /\ PlaceInv'
<1> USE DEF IInv
<1>0. at["main"] # 0
  BY DEF PlaceInv, TypeOK, Goroutines
<1>1. enabled \subseteq Optional /\ at["main"] \in Present /\ at["main"] \in 1..10
  BY <1>0, Where DEF Goroutines
<1>2. /\ Above(at["main"]) \in Present \cup {0} /\ Above(at["main"]) \in 0..9
      /\ Above(at["main"]) < at["main"] /\ Above(at["main"]) >= 2
      /\ "prom" \in enabled /\ at["main"] > 3 => Above(at["main"]) >= 3
      /\ "trace" \in enabled /\ at["main"] > 4 => Above(at["main"]) >= 4
  BY <1>1, Climb
<1>3. /\ at' = [at EXCEPT !["main"] = Above(at["main"])]
      /\ phase' = [phase EXCEPT !["main"] = "panic"]
  BY DEF Unwind
<1>4. Present' = Present
  BY DEF Present
<1>5. PlaceInv'
  BY <1>1, <1>2, <1>3, <1>4 DEF TypeOK, PlaceInv, WorkerRuns, Descending, Goroutines
<1> QED  BY <1>2, <1>3, <1>5

LEMMA WorkerUnwinds ==
    ASSUME IInv, at["worker"] # 0, Unwind("worker"), UNCHANGED enabled
    PROVE  /\ \/ /\ at' = [at EXCEPT !["worker"] = 0]
                 /\ phase' = [phase EXCEPT !["worker"] = "recovered"]
              \/ /\ at' = [at EXCEPT !["worker"] = 9]
                 /\ phase' = [phase EXCEPT !["worker"] = "panic"]
           /\ PlaceInv'
<1> USE DEF IInv
<1>1. /\ enabled \subseteq Optional /\ at["worker"] \in Present
      /\ at["worker"] \in 9..10 /\ "timeout" \in enabled
  BY Where DEF Goroutines
<1>2. Above(at["worker"]) \in {8, 9} /\ Above(at["worker"]) \in Present \cup {0}
  BY <1>1, Climb
<1>3. \/ /\ at' = [at EXCEPT !["worker"] = 0]
         /\ phase' = [phase EXCEPT !["worker"] = "recovered"]
      \/ /\ at' = [at EXCEPT !["worker"] = 9] /\ 9 \in Present
         /\ phase' = [phase EXCEPT !["worker"] = "panic"]
  BY <1>2, TimeoutPlace DEF Unwind
<1>4. Present' = Present
  BY DEF Present
<1>5. PlaceInv'
  BY <1>1, <1>3, <1>4 DEF TypeOK, PlaceInv, WorkerRuns, Descending, Goroutines
<1> QED  BY <1>3, <1>5

(* The two ways from an error to a code. *)
LEMMA ErrorCodes ==
    ASSUME NEW e \in Errors
    PROVE  /\ StatusCode(e) \in Codes /\ ServerCode(e) \in Codes
           /\ SpanEnd(e) \in {"ended"} \cup Codes
BY DEF Errors, Codes, Raw, ContextErrors, StatusCode, ServerCode, SpanEnd

LEMMA CodesDiffer ==
    ASSUME NEW e \in Errors
    PROVE  /\ StatusCode(e) = IF e \in ContextErrors THEN "Unknown" ELSE ServerCode(e)
           /\ e = "OK" <=> ServerCode(e) = "OK"
BY DEF Errors, Codes, Raw, ContextErrors, StatusCode, ServerCode

LEMMA PanicErrors ==
    /\ PanicError("NoStatus") = "Internal" /\ PanicError("PanicStatus") = "PanicStatus"
    /\ PanicError("OkStatus") = "OK"
BY DEF PanicError

LEMMA CarriedErrors == ASSUME TypeOK PROVE Carried \subseteq Errors
BY PanicErrors DEF TypeOK, Panics, Carried, Errors, Codes

(* The errors that main can carry. *)
LEMMA MainErrors == ASSUME IInv, Returned PROVE err["main"] \in Errors
BY CarriedErrors DEF IInv, VerdictInv, TogetherInv, Errors, Codes

LEMMA FirstRecord == ASSUME NEW c PROVE Append(<<>>, c) = <<c>>
OBVIOUS

LEMMA RejectInv == ASSUME IInv, NEW g \in Goroutines, Reject(g) PROVE IInv'
<1> USE DEF IInv, config, records
<1>0. at[g] # 0
  BY DEF Reject, PlaceInv, WorkerRuns, Descending, Goroutines
<1>1. enabled \subseteq Optional /\ at[g] \in Present /\ at[g] \in {5, 7, 9}
  BY <1>0, Where, Links DEF Reject, Link
<1>2. /\ Link(g) \in Guards
      /\ RejectCode(Link(g)) \in {"Unauthenticated", "ResourceExhausted"}
      /\ RejectCode(Link(g)) \in Errors
  BY DEF Reject, RejectCode, Errors, Codes
<1>3. Carried' = {"Unauthenticated", "ResourceExhausted"} /\ panicked = "no"
  BY DEF Reject, Carried, VerdictInv, Descending, Goroutines
<1>4. /\ Above(at[g]) \in 0..9 /\ Above(at[g]) >= 2
      /\ "prom" \in enabled => Above(at[g]) >= 3
      /\ "trace" \in enabled => Above(at[g]) >= 4
  BY <1>1, Climb
<1>5. CASE g = "main"
  <2>1. /\ at' = [at EXCEPT !["main"] = Above(at["main"])]
        /\ phase' = [phase EXCEPT !["main"] = "up"]
        /\ err' = [err EXCEPT !["main"] = RejectCode(Link("main"))]
        /\ PlaceInv'
    BY <1>0, <1>5, MainUp DEF Reject
  <2>2. TypeOK'
    BY <1>2, <1>4, <1>5, <2>1, ChainLinks DEF TypeOK, Reject, Goroutines
  <2>3. TogetherInv' /\ AccessInv'
    BY <1>5, <2>1 DEF TypeOK, TogetherInv, AccessInv, Reject, WorkerRuns, Returned, Descending, Goroutines
  <2>4. VerdictInv'
    BY <1>2, <1>3, <1>5, <2>1 DEF TypeOK, TogetherInv, VerdictInv, Reject, Returned, Descending, Goroutines
  <2>5. RecordInv'
    BY <1>1, <1>3, <1>4, <1>5, <2>1 DEF TypeOK, RecordInv, Reject, Returned, Descending, Goroutines
  <2>6. PayloadInv'
    BY <1>5, <2>1 DEF TypeOK, PayloadInv, EntryReachesHandler, Present, PassesPayload, Reject, Descending, Goroutines
  <2> QED  BY <2>1, <2>2, <2>3, <2>4, <2>5, <2>6
<1>6. CASE g = "worker"
  <2>1. /\ \/ /\ at' = [at EXCEPT !["worker"] = 0]
               /\ phase' = [phase EXCEPT !["worker"] = "done"]
            \/ /\ at' = [at EXCEPT !["worker"] = 9]
               /\ phase' = [phase EXCEPT !["worker"] = "up"]
        /\ err' = [err EXCEPT !["worker"] = RejectCode(Link("worker"))]
        /\ PlaceInv'
    BY <1>0, <1>6, WorkerUp DEF Reject
  <2>2. TypeOK'
    BY <1>2, <1>6, <2>1, ChainLinks DEF TypeOK, Reject, Goroutines
  <2>3. TogetherInv' /\ AccessInv'
    BY <1>6, <2>1 DEF TypeOK, TogetherInv, AccessInv, Reject, WorkerRuns, Returned, Descending, Goroutines
  <2>4. VerdictInv'
    BY <1>2, <1>3, <1>6, <2>1 DEF TypeOK, TogetherInv, VerdictInv, Reject, Returned, WorkerRuns, Descending, Goroutines
  <2>5. RecordInv'
    BY <1>6, <2>1 DEF TypeOK, RecordInv, SpanEnd, Reject, Returned, Descending, Goroutines
  <2>6. PayloadInv'
    BY <1>6, <2>1 DEF TypeOK, PayloadInv, EntryReachesHandler, Present, PassesPayload, Reject, Descending, Goroutines
  <2> QED  BY <2>1, <2>2, <2>3, <2>4, <2>5, <2>6
<1> QED  BY <1>5, <1>6 DEF Goroutines

(* The handler: it ends a descent in one of two ways. *)
LEMMA HandlerAt ==
    ASSUME IInv, NEW g \in Goroutines, HandlerEnds(g), UNCHANGED config
    PROVE  /\ at[g] = 10 /\ Descending(g) /\ enabled \subseteq Optional
           /\ served' \in {"withEntry", "withoutEntry"}
           /\ rejected = {} /\ panicked = "no" /\ access[g] = "none"
           /\ EntryReachesHandler'
<1> USE DEF IInv
<1>0. at[g] # 0
  BY DEF HandlerEnds, PlaceInv, WorkerRuns, Descending, Goroutines
<1>1. at[g] = 10 /\ enabled \subseteq Optional
  BY <1>0, Where, Links DEF HandlerEnds, Link
<1>2. Descending(g) /\ served' \in {"withEntry", "withoutEntry"}
  BY DEF HandlerEnds, Descending
<1>3. rejected = {} /\ panicked = "no"
  BY <1>2 DEF VerdictInv, Goroutines
<1>4. ~payload[g] => kind = "stream" /\ enabled \subseteq {"timeout"}
  <2> SUFFICES ASSUME ~payload[g] PROVE kind = "stream" /\ enabled \subseteq {"timeout"}
    OBVIOUS
  <2>1. \A i \in Present : i < 10 => ~PassesPayload(Chain[i])
    BY <1>1, <1>2 DEF PayloadInv
  <2>2. kind = "stream"
    BY <1>1, <2>1, PresentLinks DEF PassesPayload, TypeOK
  <2>3. \A i \in 1..9 : Chain[i] \in enabled => Chain[i] = "timeout"
    BY <1>1, <2>1, ChainLinks, OptionalAssumption DEF PassesPayload, Present
  <2>4. enabled \subseteq {"timeout"}
    BY <1>1, <2>3, ChainLinks, OptionalAssumption
  <2> QED  BY <2>2, <2>4
<1>5. EntryReachesHandler'
  BY <1>4 DEF HandlerEnds, EntryReachesHandler, config, PayloadInv, TypeOK
<1>6. access[g] = "none"
  BY DEF HandlerEnds, AccessInv, Goroutines
<1> QED  BY <1>1, <1>2, <1>3, <1>5, <1>6

LEMMA HandlerReturnInv == ASSUME IInv, NEW g \in Goroutines, HandlerReturn(g) PROVE IInv'
<1> USE DEF IInv, config, records
<1>1. /\ at[g] = 10 /\ Descending(g) /\ enabled \subseteq Optional
      /\ served' \in {"withEntry", "withoutEntry"}
      /\ rejected = {} /\ panicked = "no"
      /\ EntryReachesHandler'
  BY HandlerAt DEF HandlerReturn
<1>2. PICK e \in {"OK", "HandlerError"} \cup Raw : Up(g, e)
  BY DEF HandlerReturn
<1>3. e \in Carried' /\ e \in Errors
  BY <1>1 DEF HandlerReturn, Carried, Errors, Codes
<1>4. at[g] \in Present /\ UNCHANGED access
  BY <1>1, PresentLinks DEF HandlerReturn, HandlerEnds
<1>5. /\ Above(at[g]) \in 0..9 /\ Above(at[g]) >= 2
      /\ "prom" \in enabled => Above(at[g]) >= 3
      /\ "trace" \in enabled => Above(at[g]) >= 4
  BY <1>1, <1>4, Climb
<1>6. CASE g = "main"
  <2>1. /\ at' = [at EXCEPT !["main"] = Above(at["main"])]
        /\ phase' = [phase EXCEPT !["main"] = "up"]
        /\ err' = [err EXCEPT !["main"] = e]
        /\ PlaceInv'
    BY <1>1, <1>2, <1>6, MainUp DEF HandlerReturn
  <2>2. TypeOK'
    BY <1>1, <1>3, <1>4, <1>5, <1>6, <2>1, ChainLinks DEF TypeOK, HandlerReturn, Goroutines
  <2>3. TogetherInv' /\ AccessInv'
    BY <1>1, <1>4, <1>6, <2>1 DEF TypeOK, TogetherInv, AccessInv, HandlerReturn, HandlerEnds, WorkerRuns, Returned, Descending, Goroutines
  <2>4. VerdictInv'
    BY <1>1, <1>3, <1>6, <2>1 DEF TypeOK, TogetherInv, VerdictInv, HandlerReturn, Returned, Descending, Goroutines
  <2>5. RecordInv'
    BY <1>1, <1>2, <1>5, <1>6, <2>1 DEF TypeOK, RecordInv, SpanEnd, HandlerReturn, Returned, Descending, Goroutines
  <2>6. PayloadInv'
    BY <1>1, <1>6, <2>1 DEF TypeOK, PayloadInv, Present, PassesPayload, HandlerReturn, Descending, Goroutines
  <2> QED  BY <2>1, <2>2, <2>3, <2>4, <2>5, <2>6
<1>7. CASE g = "worker"
  <2>1. /\ \/ /\ at' = [at EXCEPT !["worker"] = 0]
               /\ phase' = [phase EXCEPT !["worker"] = "done"]
            \/ /\ at' = [at EXCEPT !["worker"] = 9]
               /\ phase' = [phase EXCEPT !["worker"] = "up"]
        /\ err' = [err EXCEPT !["worker"] = e]
        /\ PlaceInv'
    BY <1>1, <1>2, <1>7, WorkerUp DEF HandlerReturn
  <2>2. TypeOK'
    BY <1>1, <1>3, <1>4, <1>7, <2>1, ChainLinks DEF TypeOK, HandlerReturn, Goroutines
  <2>3. TogetherInv' /\ AccessInv'
    BY <1>1, <1>4, <1>7, <2>1 DEF TypeOK, TogetherInv, AccessInv, HandlerReturn, HandlerEnds, WorkerRuns, Returned, Descending, Goroutines
  <2>4. VerdictInv'
    BY <1>1, <1>3, <1>7, <2>1 DEF TypeOK, TogetherInv, VerdictInv, HandlerReturn, Returned, WorkerRuns, Descending, Goroutines
  <2>5. RecordInv'
    BY <1>7, <2>1 DEF TypeOK, RecordInv, SpanEnd, HandlerReturn, Returned, Descending, Goroutines
  <2>6. PayloadInv'
    BY <1>1, <1>7, <2>1 DEF TypeOK, PayloadInv, Present, PassesPayload, HandlerReturn, Descending, Goroutines
  <2> QED  BY <2>1, <2>2, <2>3, <2>4, <2>5, <2>6
<1> QED  BY <1>6, <1>7 DEF Goroutines

LEMMA HandlerPanicInv == ASSUME IInv, NEW g \in Goroutines, HandlerPanic(g) PROVE IInv'
<1> USE DEF IInv, config, records
<1>1. /\ at[g] = 10 /\ Descending(g) /\ enabled \subseteq Optional
      /\ served' \in {"withEntry", "withoutEntry"}
      /\ rejected = {} /\ panicked = "no" /\ access[g] = "none" /\ UNCHANGED access
      /\ EntryReachesHandler'
  BY HandlerAt DEF HandlerPanic, HandlerEnds
<1>2. panicked' \in Panics /\ panicked' # "no"
  BY DEF HandlerPanic, Panics
<1>3. CASE g = "main"
  <2>1. /\ at' = [at EXCEPT !["main"] = Above(at["main"])]
        /\ Above(at["main"]) \in 2..9
        /\ "prom" \in enabled => Above(at["main"]) >= 3
        /\ "trace" \in enabled => Above(at["main"]) >= 4
        /\ phase' = [phase EXCEPT !["main"] = "panic"]
        /\ PlaceInv'
    BY <1>1, <1>2, <1>3, MainUnwinds DEF HandlerPanic
  <2>2. TypeOK'
    BY <1>1, <1>2, <1>3, <2>1, ChainLinks DEF TypeOK, HandlerPanic, Goroutines
  <2>3. TogetherInv' /\ AccessInv'
    BY <1>1, <1>2, <1>3, <2>1 DEF TypeOK, TogetherInv, AccessInv, HandlerPanic, WorkerRuns, Returned, Descending, Goroutines
  <2>4. VerdictInv'
    BY <1>1, <1>2, <1>3, <2>1 DEF TypeOK, TogetherInv, VerdictInv, HandlerPanic, Returned, Descending, Goroutines
  <2>5. RecordInv'
    BY <1>1, <1>2, <1>3, <2>1 DEF TypeOK, RecordInv, SpanEnd, HandlerPanic, Returned, Descending, Goroutines
  <2>6. PayloadInv'
    BY <1>1, <1>2, <1>3, <2>1 DEF TypeOK, PayloadInv, Present, PassesPayload, HandlerPanic, Descending, Goroutines
  <2> QED  BY <2>1, <2>2, <2>3, <2>4, <2>5, <2>6
<1>4. CASE g = "worker"
  <2>1. /\ \/ /\ at' = [at EXCEPT !["worker"] = 0]
               /\ phase' = [phase EXCEPT !["worker"] = "recovered"]
            \/ /\ at' = [at EXCEPT !["worker"] = 9]
               /\ phase' = [phase EXCEPT !["worker"] = "panic"]
        /\ PlaceInv'
    BY <1>1, <1>2, <1>4, WorkerUnwinds DEF HandlerPanic
  <2>2. TypeOK'
    BY <1>1, <1>2, <1>4, <2>1, ChainLinks DEF TypeOK, HandlerPanic, Goroutines
  <2>3. TogetherInv' /\ AccessInv'
    BY <1>1, <1>2, <1>4, <2>1 DEF TypeOK, TogetherInv, AccessInv, HandlerPanic, WorkerRuns, Returned, Descending, Goroutines
  <2>4. VerdictInv'
    BY <1>1, <1>2, <1>4, <2>1 DEF TypeOK, TogetherInv, VerdictInv, HandlerPanic, Returned, WorkerRuns, Descending, Goroutines
  <2>5. RecordInv'
    BY <1>1, <1>2, <1>4, <2>1 DEF TypeOK, TogetherInv, RecordInv, SpanEnd, HandlerPanic, WorkerRuns, Returned, Descending, Goroutines
  <2>6. PayloadInv'
    BY <1>1, <1>2, <1>4, <2>1 DEF TypeOK, PayloadInv, Present, PassesPayload, HandlerPanic, Descending, Goroutines
  <2> QED  BY <2>1, <2>2, <2>3, <2>4, <2>5, <2>6
<1> QED  BY <1>3, <1>4 DEF Goroutines

(* Going up. *)
LEMMA UnwindLinkInv == ASSUME IInv, NEW g \in Goroutines, UnwindLink(g) PROVE IInv'
<1> USE DEF IInv, config, records
<1>1. /\ enabled \subseteq Optional /\ at[g] \in Present /\ at[g] \in 1..10 /\ at[g] # 2
      /\ phase[g] = "panic"
  BY Where, Links DEF UnwindLink, Link
<1>2. panicked # "no"
  BY <1>1 DEF TogetherInv, VerdictInv, Goroutines
<1>3. Carried' = Carried
  BY DEF UnwindLink, Carried
<1>4. CASE g = "main"
  <2>0. at["main"] > 2
    BY <1>1, <1>4 DEF PlaceInv
  <2>1. /\ at' = [at EXCEPT !["main"] = Above(at["main"])]
        /\ Above(at["main"]) \in 2..9
        /\ "prom" \in enabled /\ at["main"] > 3 => Above(at["main"]) >= 3
        /\ "trace" \in enabled /\ at["main"] > 4 => Above(at["main"]) >= 4
        /\ phase' = [phase EXCEPT !["main"] = "panic"]
        /\ PlaceInv'
    BY <1>1, <1>4, <2>0, MainUnwinds DEF UnwindLink
  <2>2. TypeOK'
    BY <1>1, <1>4, <2>1, ChainLinks DEF TypeOK, UnwindLink, Goroutines
  <2>3. TogetherInv' /\ AccessInv'
    BY <1>1, <1>2, <1>4, <2>1 DEF TypeOK, TogetherInv, AccessInv, UnwindLink, WorkerRuns, Returned, Descending, Goroutines
  <2>4. VerdictInv'
    BY <1>1, <1>3, <1>4, <2>1 DEF TypeOK, TogetherInv, VerdictInv, UnwindLink, Returned, Descending, Goroutines
  <2>5. RecordInv'
    BY <1>1, <1>4, <2>0, <2>1 DEF TypeOK, RecordInv, SpanEnd, UnwindLink, Returned, Descending, Goroutines
  <2>6. PayloadInv'
    BY <1>1, <1>4, <2>1 DEF TypeOK, PayloadInv, EntryReachesHandler, Present, PassesPayload, UnwindLink, Descending, Goroutines
  <2> QED  BY <2>1, <2>2, <2>3, <2>4, <2>5, <2>6
<1>5. CASE g = "worker"
  <2>1. /\ \/ /\ at' = [at EXCEPT !["worker"] = 0]
               /\ phase' = [phase EXCEPT !["worker"] = "recovered"]
            \/ /\ at' = [at EXCEPT !["worker"] = 9]
               /\ phase' = [phase EXCEPT !["worker"] = "panic"]
        /\ PlaceInv'
    BY <1>1, <1>5, WorkerUnwinds DEF UnwindLink
  <2>2. TypeOK'
    BY <1>1, <1>5, <2>1, ChainLinks DEF TypeOK, UnwindLink, Goroutines
  <2>3. TogetherInv' /\ AccessInv'
    BY <1>1, <1>5, <2>1 DEF TypeOK, TogetherInv, AccessInv, UnwindLink, WorkerRuns, Returned, Descending, Goroutines
  <2>4. VerdictInv'
    BY <1>1, <1>2, <1>3, <1>5, <2>1 DEF TypeOK, TogetherInv, VerdictInv, UnwindLink, Returned, WorkerRuns, Descending, Goroutines
  <2>5. RecordInv'
    BY <1>1, <1>5, <2>1 DEF TypeOK, RecordInv, SpanEnd, UnwindLink, Returned, Descending, Goroutines
  <2>6. PayloadInv'
    BY <1>1, <1>5, <2>1 DEF TypeOK, PayloadInv, EntryReachesHandler, Present, PassesPayload, UnwindLink, Descending, Goroutines
  <2> QED  BY <2>1, <2>2, <2>3, <2>4, <2>5, <2>6
<1> QED  BY <1>4, <1>5 DEF Goroutines

LEMMA RecoverPanicInv == ASSUME IInv, NEW g \in Goroutines, RecoverPanic(g) PROVE IInv'
<1> USE DEF IInv, config
<1>0. phase[g] = "panic" /\ at[g] # 0
  BY DEF RecoverPanic, PlaceInv, WorkerRuns, Goroutines
<1>1. enabled \subseteq Optional /\ at[g] = 2 /\ at[g] \in Present /\ g = "main"
  BY <1>0, Where, Links DEF RecoverPanic, Link, Goroutines
<1>2. panicked # "no" /\ ~timedOut
  BY <1>0, <1>1 DEF TogetherInv, Returned
<1>3. Up("main", PanicError(panicked))
  BY <1>1 DEF RecoverPanic
<1>4. Carried' = Carried /\ Carried = {PanicError(panicked)} /\ PanicError(panicked) \in Errors
  BY <1>2, CarriedErrors DEF RecoverPanic, Carried
<1>5. /\ at' = [at EXCEPT !["main"] = Above(at["main"])]
      /\ phase' = [phase EXCEPT !["main"] = "up"]
      /\ err' = [err EXCEPT !["main"] = PanicError(panicked)]
      /\ PlaceInv'
  BY <1>0, <1>1, <1>3, MainUp DEF RecoverPanic
<1>6. Above(at["main"]) = IF "log" \in enabled THEN 1 ELSE 0
  BY <1>1, Climb
<1>7. TypeOK'
  BY <1>1, <1>4, <1>5, <1>6, ChainLinks DEF TypeOK, RecoverPanic, Goroutines
<1>8. TogetherInv' /\ AccessInv'
  BY <1>0, <1>1, <1>2, <1>5 DEF TypeOK, TogetherInv, AccessInv, RecoverPanic, WorkerRuns, Returned, Descending, Goroutines
<1>9. VerdictInv'
  BY <1>0, <1>1, <1>2, <1>4, <1>5 DEF TypeOK, VerdictInv, RecoverPanic, Returned, Descending, Goroutines
<1>10. RecordInv'
  <2>1. /\ panicked' # "no" /\ ~timedOut' /\ UNCHANGED <<logged, metric, span, answer, enabled>>
        /\ counted' = (counted \/ "log" \in enabled)
    BY <1>2 DEF RecoverPanic
  <2>2. at'["main"] \in 0..1 /\ phase'["main"] = "up" /\ err'["main"] = PanicError(panicked)
    BY <1>5, <1>6 DEF TypeOK, Goroutines
  <2>3. logged = <<>> /\ answer = "none"
    BY <1>0, <1>1 DEF RecordInv
  <2>4. at'["main"] = 0 => "log" \notin enabled
    BY <1>5, <1>6 DEF TypeOK, Goroutines
  <2>5. "log" \in enabled => counted'
    BY <2>1
  <2> QED  BY <2>1, <2>2, <2>3, <2>4, <2>5 DEF RecordInv, Returned, Descending
<1>11. PayloadInv'
  BY <1>0, <1>1, <1>5 DEF TypeOK, PayloadInv, EntryReachesHandler, Present, PassesPayload, RecoverPanic, Descending, Goroutines
<1> QED  BY <1>5, <1>7, <1>8, <1>9, <1>10, <1>11

LEMMA LogReadInv == ASSUME IInv, NEW g \in Goroutines, LogRead(g) PROVE IInv'
<1> USE DEF IInv, config, records
<1>0. at[g] # 0
  BY DEF LogRead, Link
<1>1. at[g] = 1 /\ g = "main" /\ phase["main"] = "up"
  BY <1>0, Where, Links DEF LogRead, Link, Goroutines
<1>2. TypeOK'
  BY DEF TypeOK, LogRead, Goroutines
<1>3. PlaceInv'
  BY <1>1 DEF TypeOK, PlaceInv, LogRead, Present, WorkerRuns, Descending, Goroutines
<1>4. TogetherInv' /\ AccessInv'
  BY <1>1 DEF TypeOK, TogetherInv, AccessInv, LogRead, WorkerRuns, Returned, Descending, Goroutines
<1>5. VerdictInv'
  BY <1>1 DEF TypeOK, VerdictInv, Carried, LogRead, Returned, Descending, Goroutines
<1>6. RecordInv'
  BY <1>1 DEF TypeOK, RecordInv, SpanEnd, LogRead, Returned, Descending, Goroutines
<1>7. PayloadInv'
  BY <1>1 DEF TypeOK, PayloadInv, EntryReachesHandler, Present, PassesPayload, LogRead, Descending, Goroutines
<1> QED  BY <1>2, <1>3, <1>4, <1>5, <1>6, <1>7

LEMMA LogAfterInv == ASSUME IInv, NEW g \in Goroutines, LogAfter(g) PROVE IInv'
<1> USE DEF IInv, config
<1>0. at[g] # 0
  BY DEF LogAfter, Link
<1>1. /\ enabled \subseteq Optional /\ at[g] = 1 /\ at[g] \in Present /\ g = "main"
      /\ phase["main"] = "after" /\ "log" \in enabled
  BY <1>0, Where, Links, PresentLinks DEF LogAfter, Link, Goroutines
<1>2. /\ at' = [at EXCEPT !["main"] = Above(at["main"])]
      /\ phase' = [phase EXCEPT !["main"] = "up"]
      /\ err' = [err EXCEPT !["main"] = err["main"]]
      /\ PlaceInv'
  BY <1>0, <1>1, MainUp DEF LogAfter
<1>3. Above(at["main"]) = 0
  <2>1. Above(at["main"]) \in 0..9 /\ Above(at["main"]) < at["main"]
    BY <1>1, Climb
  <2> QED  BY <1>1, <2>1
<1>4. err["main"] \in Errors /\ StatusCode(err["main"]) \in Codes /\ err' = err
  BY <1>1, <1>2, MainErrors, ErrorCodes DEF Returned, TypeOK
<1>5. logged' = <<StatusCode(err["main"])>>
  <2>1. logged = <<>> /\ logged' = Append(logged, StatusCode(err["main"]))
    BY <1>1 DEF LogAfter, RecordInv
  <2> QED  BY <2>1, FirstRecord
<1>6. TypeOK'
  <2>1. logged' \in Seq(Codes)
    BY <1>4, <1>5
  <2> QED  BY <1>1, <1>2, <1>3, <1>4, <2>1, ChainLinks DEF TypeOK, LogAfter, Goroutines
<1>7. TogetherInv' /\ AccessInv'
  BY <1>1, <1>2, <1>4 DEF TypeOK, TogetherInv, AccessInv, LogAfter, WorkerRuns, Returned, Descending, Goroutines
<1>8. VerdictInv'
  BY <1>1, <1>2, <1>4 DEF TypeOK, VerdictInv, Carried, LogAfter, Returned, Descending, Goroutines
<1>9. RecordInv'
  BY <1>1, <1>2, <1>3, <1>4, <1>5 DEF TypeOK, RecordInv, SpanEnd, LogAfter, Returned, Descending, Goroutines
<1>10. PayloadInv'
  BY <1>1, <1>2 DEF TypeOK, PayloadInv, EntryReachesHandler, Present, PassesPayload, LogAfter, Descending, Goroutines
<1> QED  BY <1>2, <1>6, <1>7, <1>8, <1>9, <1>10

LEMMA AfterInv == ASSUME IInv, NEW g \in Goroutines, After(g) PROVE IInv'
<1> USE DEF IInv, config
<1>1. /\ enabled \subseteq Optional /\ at[g] \in Present /\ at[g] \in 2..9
      /\ phase[g] = "up" /\ at[g] # 0
  BY Where, Links DEF After, Link, PlaceInv
<1>2. /\ metric' = IF at[g] = 3 THEN Append(metric, StatusCode(err[g])) ELSE metric
      /\ span' = IF at[g] = 4 THEN SpanEnd(err[g]) ELSE span
  BY <1>1, Links DEF After, Link
<1>3. Carried' = Carried
  BY DEF After, Carried
<1>4. CASE g = "main"
  <2>1. /\ at' = [at EXCEPT !["main"] = Above(at["main"])]
        /\ phase' = [phase EXCEPT !["main"] = "up"]
        /\ err' = [err EXCEPT !["main"] = err["main"]]
        /\ PlaceInv'
    BY <1>1, <1>4, MainUp DEF After
  <2>2. /\ Above(at["main"]) \in 0..9 /\ Above(at["main"]) < at["main"]
        /\ at["main"] = 2 => Above(at["main"]) = IF "log" \in enabled THEN 1 ELSE 0
        /\ at["main"] > 2 => Above(at["main"]) >= 2
        /\ "prom" \in enabled /\ at["main"] > 3 => Above(at["main"]) >= 3
        /\ "trace" \in enabled /\ at["main"] > 4 => Above(at["main"]) >= 4
    BY <1>1, <1>4, Climb
  <2>3. /\ err' = err /\ StatusCode(err["main"]) \in Codes
        /\ SpanEnd(err["main"]) \in {"ended"} \cup Codes
    BY <1>1, <1>4, <2>1, MainErrors, ErrorCodes DEF Returned, TypeOK
  <2>4. metric' = IF at["main"] = 3 THEN <<StatusCode(err["main"])>> ELSE metric
    <3>1. at["main"] = 3 => metric = <<>>
      BY DEF RecordInv, TypeOK, Goroutines
    <3> QED  BY <1>2, <1>4, <3>1, FirstRecord
  <2>5. TypeOK'
    <3>1. metric' \in Seq(Codes)
      BY <2>3, <2>4 DEF TypeOK
    <3> QED  BY <1>2, <1>4, <2>1, <2>2, <2>3, <3>1, ChainLinks DEF TypeOK, After, Goroutines
  <2>6. TogetherInv' /\ AccessInv'
    BY <1>1, <1>4, <2>1, <2>3 DEF TypeOK, TogetherInv, AccessInv, After, WorkerRuns, Returned, Descending, Goroutines
  <2>7. VerdictInv'
    BY <1>1, <1>3, <1>4, <2>1, <2>3 DEF TypeOK, VerdictInv, After, Returned, Descending, Goroutines
  <2>8. RecordInv'
    <3>1. /\ at'["main"] = Above(at["main"]) /\ phase'["main"] = "up"
          /\ at["main"] >= 3 <=> at["main"] > 2
          /\ UNCHANGED <<kind, enabled, err, logged, counted, answer, panicked, timedOut>>
      BY <1>1, <1>4, <2>1, <2>3 DEF After, TypeOK, Goroutines
    <3>2. logged' = IF "log" \in enabled /\ at'["main"] = 0 THEN <<StatusCode(err["main"])>> ELSE <<>>
      BY <1>1, <1>4, <2>2, <3>1 DEF RecordInv
    <3>3. at'["main"] >= 3 => metric' = <<>>
      BY <1>1, <1>4, <2>2, <2>4, <3>1 DEF RecordInv
    <3>4. ASSUME panicked # "no" => timedOut, "prom" \in enabled, at'["main"] < 3
          PROVE  metric' = <<StatusCode(err["main"])>>
      BY <1>1, <1>4, <2>2, <2>4, <3>1, <3>4 DEF RecordInv, Returned
    <3>5. ASSUME panicked # "no" => timedOut, "trace" \in enabled, at'["main"] < 4
          PROVE  span' = SpanEnd(err["main"])
      BY <1>1, <1>2, <1>4, <2>2, <3>1, <3>5 DEF RecordInv, Returned
    <3> QED  BY <1>1, <1>4, <3>1, <3>2, <3>3, <3>4, <3>5 DEF RecordInv, SpanEnd, Returned, Descending
  <2>9. PayloadInv'
    BY <1>1, <1>4, <2>1 DEF TypeOK, PayloadInv, EntryReachesHandler, Present, PassesPayload, After, Descending, Goroutines
  <2> QED  BY <2>1, <2>5, <2>6, <2>7, <2>8, <2>9
<1>5. CASE g = "worker"
  <2>1. /\ \/ /\ at' = [at EXCEPT !["worker"] = 0]
               /\ phase' = [phase EXCEPT !["worker"] = "done"]
            \/ /\ at' = [at EXCEPT !["worker"] = 9]
               /\ phase' = [phase EXCEPT !["worker"] = "up"]
        /\ err' = [err EXCEPT !["worker"] = err["worker"]]
        /\ PlaceInv'
    BY <1>1, <1>5, WorkerUp DEF After
  <2>2. UNCHANGED <<metric, span>>
    BY <1>2, <1>1, <1>5, Where
  <2>3. err' = err
    BY <2>1 DEF TypeOK
  <2>4. TypeOK'
    BY <1>5, <2>1, <2>2, <2>3, ChainLinks DEF TypeOK, After, Goroutines
  <2>5. TogetherInv' /\ AccessInv'
    BY <1>1, <1>5, <2>1, <2>3 DEF TypeOK, TogetherInv, AccessInv, After, WorkerRuns, Returned, Descending, Goroutines
  <2>6. VerdictInv'
    BY <1>1, <1>3, <1>5, <2>1, <2>3 DEF TypeOK, VerdictInv, After, Returned, Descending, Goroutines
  <2>7. RecordInv'
    BY <1>5, <2>1, <2>2, <2>3 DEF TypeOK, RecordInv, SpanEnd, After, Returned, Descending, Goroutines
  <2>8. PayloadInv'
    BY <1>1, <1>5, <2>1 DEF TypeOK, PayloadInv, EntryReachesHandler, Present, PassesPayload, After, Descending, Goroutines
  <2> QED  BY <2>1, <2>4, <2>5, <2>6, <2>7, <2>8
<1> QED  BY <1>4, <1>5 DEF Goroutines

LEMMA AnswerInv == ASSUME IInv, Answer PROVE IInv'
<1> USE DEF IInv, config, records
<1>1. ServerCode(err["main"]) \in Codes
  BY MainErrors, ErrorCodes DEF Answer, Returned
<1>2. TypeOK'
  BY <1>1 DEF TypeOK, Answer, Goroutines
<1>3. PlaceInv'
  BY DEF TypeOK, PlaceInv, Answer, Present, WorkerRuns, Descending, Goroutines
<1>4. TogetherInv' /\ AccessInv'
  BY DEF TypeOK, TogetherInv, AccessInv, Answer, WorkerRuns, Returned, Descending, Goroutines
<1>5. VerdictInv'
  BY DEF TypeOK, VerdictInv, Carried, Answer, Returned, Descending, Goroutines
<1>6. RecordInv'
  BY DEF TypeOK, RecordInv, SpanEnd, Answer, Returned, Descending, Goroutines
<1>7. PayloadInv'
  BY DEF TypeOK, PayloadInv, EntryReachesHandler, Present, PassesPayload, Answer, Descending, Goroutines
<1> QED  BY <1>2, <1>3, <1>4, <1>5, <1>6, <1>7

(* The timeout. *)
LEMMA StartWorkerInv == ASSUME IInv, StartWorker PROVE IInv'
<1> USE DEF IInv, config, records
<1>0. at["main"] # 0 /\ phase["main"] = "before"
  BY DEF StartWorker, PlaceInv, Descending
<1>1. /\ enabled \subseteq Optional /\ at["main"] = 8 /\ at["main"] \in Present
      /\ "timeout" \in enabled
  BY <1>0, Where, Links, PresentLinks DEF StartWorker, Link, Goroutines
<1>2. /\ Below(8) \in Present /\ Below(8) \in 9..10
      /\ \A k \in Present : k < Below(8) => k <= 8
  BY <1>1, Descend
<1>3. Present' = Present /\ \A link : PassesPayload(link)' = PassesPayload(link)
  BY DEF StartWorker, Present, PassesPayload
<1>4. TypeOK'
  BY <1>1, <1>2, ChainLinks DEF TypeOK, StartWorker, PassesPayload, Goroutines
<1>5. PlaceInv'
  BY <1>1, <1>2, <1>3 DEF TypeOK, PlaceInv, StartWorker, WorkerRuns, Descending, Goroutines
<1>6. TogetherInv' /\ AccessInv'
  BY <1>0 DEF TypeOK, TogetherInv, AccessInv, StartWorker, WorkerRuns, Returned, Descending, Goroutines
<1>7. VerdictInv'
  BY <1>0 DEF TypeOK, TogetherInv, VerdictInv, Carried, StartWorker, Returned, Descending, Goroutines
<1>8. RecordInv'
  BY <1>0, <1>1 DEF TypeOK, RecordInv, SpanEnd, StartWorker, Returned, Descending, Goroutines
<1>9. PayloadInv'
  <2>1. /\ at' = [at EXCEPT !["worker"] = Below(8)]
        /\ phase' = [phase EXCEPT !["main"] = "wait", !["worker"] = "enter"]
        /\ payload' = [payload EXCEPT !["worker"] = payload["main"] \/ PassesPayload(Chain[8])]
    BY <1>1, ChainLinks DEF StartWorker
  <2>2. \A i \in Present : i < Below(8) => i < 8 \/ i = 8
    BY <1>1, <1>2, PresentLinks
  <2>3. ~payload'["worker"] => \A i \in Present : i < Below(8) => ~PassesPayload(Chain[i])
    BY <1>0, <1>1, <2>1, <2>2 DEF TypeOK, PayloadInv, Descending, Goroutines
  <2>4. ~payload'["main"] => \A i \in Present : i < 8 => ~PassesPayload(Chain[i])
    BY <1>0, <1>1, <2>1 DEF TypeOK, PayloadInv, Descending, Goroutines
  <2>5. EntryReachesHandler'
    BY DEF PayloadInv, EntryReachesHandler, StartWorker
  <2> QED  BY <1>1, <1>3, <2>1, <2>3, <2>4, <2>5 DEF PayloadInv, TypeOK, Goroutines
<1> QED  BY <1>4, <1>5, <1>6, <1>7, <1>8, <1>9

(* Where main is while it waits. *)
LEMMA WaitPlace ==
    ASSUME IInv, phase["main"] = "wait"
    PROVE  /\ at["main"] = 8 /\ at["main"] # 0 /\ enabled \subseteq Optional
           /\ 8 \in Present /\ "timeout" \in enabled
           /\ ~timedOut
           /\ Above(8) \in 2..7
           /\ "prom" \in enabled => Above(8) >= 3
           /\ "trace" \in enabled => Above(8) >= 4
<1> USE DEF IInv
<1>1. at["main"] = 8 /\ at["main"] # 0 /\ ~timedOut
  BY DEF PlaceInv, TogetherInv, Returned
<1>2. enabled \subseteq Optional /\ 8 \in Present
  BY <1>1, Where DEF Goroutines
<1>3. "timeout" \in enabled
  BY <1>2, PresentLinks
<1>4. /\ Above(8) \in 2..7
      /\ "prom" \in enabled => Above(8) >= 3
      /\ "trace" \in enabled => Above(8) >= 4
  BY <1>2, Climb
<1> QED  BY <1>1, <1>2, <1>3, <1>4

LEMMA WaitFinishInv == ASSUME IInv, WaitFinish PROVE IInv'
<1> USE DEF IInv, config, records
<1>1. phase["main"] = "wait" /\ phase["worker"] = "done"
  BY DEF WaitFinish
<1>2. /\ at["main"] = 8 /\ at["main"] # 0 /\ ~timedOut
      /\ Above(8) \in 2..7
      /\ "prom" \in enabled => Above(8) >= 3
      /\ "trace" \in enabled => Above(8) >= 4
  BY <1>1, WaitPlace
<1>3. /\ at' = [at EXCEPT !["main"] = Above(8)]
      /\ phase' = [phase EXCEPT !["main"] = "up"]
      /\ err' = [err EXCEPT !["main"] = err["worker"]]
      /\ PlaceInv'
  BY <1>2, MainUp DEF WaitFinish
<1>4. panicked = "no" /\ err["worker"] \in Carried /\ Carried' = Carried
  BY <1>1 DEF VerdictInv, Carried, WaitFinish
<1>5. err["worker"] \in Errors
  BY <1>4, CarriedErrors
<1>6. TypeOK'
  BY <1>2, <1>3, <1>5, ChainLinks DEF TypeOK, WaitFinish, Goroutines
<1>7. TogetherInv' /\ AccessInv'
  BY <1>1, <1>2, <1>3 DEF TypeOK, TogetherInv, AccessInv, WaitFinish, WorkerRuns, Returned, Descending, Goroutines
<1>8. VerdictInv'
  BY <1>1, <1>3, <1>4 DEF TypeOK, VerdictInv, WaitFinish, Returned, Descending, Goroutines
<1>9. RecordInv'
  BY <1>1, <1>2, <1>3, <1>4 DEF TypeOK, RecordInv, WaitFinish, Returned, Descending, Goroutines
<1>10. PayloadInv'
  BY <1>1, <1>3 DEF TypeOK, PayloadInv, EntryReachesHandler, Present, PassesPayload, WaitFinish, Descending, Goroutines
<1> QED  BY <1>3, <1>6, <1>7, <1>8, <1>9, <1>10

LEMMA WaitPanicInv == ASSUME IInv, WaitPanic PROVE IInv'
<1> USE DEF IInv, config, records
<1>1. phase["main"] = "wait" /\ phase["worker"] = "recovered"
  BY DEF WaitPanic
<1>2. at["main"] = 8 /\ ~timedOut /\ at["main"] > 2
  BY <1>1, WaitPlace
<1>3. /\ at' = [at EXCEPT !["main"] = Above(at["main"])]
      /\ Above(at["main"]) \in 2..9
      /\ "prom" \in enabled /\ at["main"] > 3 => Above(at["main"]) >= 3
      /\ "trace" \in enabled /\ at["main"] > 4 => Above(at["main"]) >= 4
      /\ phase' = [phase EXCEPT !["main"] = "panic"]
      /\ PlaceInv'
  BY <1>2, MainUnwinds DEF WaitPanic
<1>4. panicked # "no" /\ Carried' = Carried
  BY <1>1 DEF VerdictInv, Carried, WaitPanic
<1>5. TypeOK'
  BY <1>2, <1>3, ChainLinks DEF TypeOK, WaitPanic, Goroutines
<1>6. TogetherInv' /\ AccessInv'
  BY <1>1, <1>2, <1>3, <1>4 DEF TypeOK, TogetherInv, AccessInv, WaitPanic, WorkerRuns, Returned, Descending, Goroutines
<1>7. VerdictInv'
  BY <1>1, <1>3, <1>4 DEF TypeOK, VerdictInv, WaitPanic, Returned, Descending, Goroutines
<1>8. RecordInv'
  BY <1>1, <1>2, <1>3 DEF TypeOK, RecordInv, SpanEnd, WaitPanic, Returned, Descending, Goroutines
<1>9. PayloadInv'
  BY <1>1, <1>3 DEF TypeOK, PayloadInv, EntryReachesHandler, Present, PassesPayload, WaitPanic, Descending, Goroutines
<1> QED  BY <1>3, <1>5, <1>6, <1>7, <1>8, <1>9

LEMMA WaitTimeoutInv == ASSUME IInv, WaitTimeout PROVE IInv'
<1> USE DEF IInv, config, records
<1>1. phase["main"] = "wait" /\ timedOut' = TRUE
  BY DEF WaitTimeout
<1>2. /\ at["main"] = 8 /\ at["main"] # 0 /\ "timeout" \in enabled
      /\ Above(8) \in 2..7
      /\ "prom" \in enabled => Above(8) >= 3
      /\ "trace" \in enabled => Above(8) >= 4
  BY <1>1, WaitPlace
<1>3. /\ at' = [at EXCEPT !["main"] = Above(8)]
      /\ phase' = [phase EXCEPT !["main"] = "up"]
      /\ err' = [err EXCEPT !["main"] = "Canceled"]
      /\ PlaceInv'
  BY <1>2, MainUp DEF WaitTimeout
<1>4. TypeOK'
  BY <1>2, <1>3, ChainLinks DEF TypeOK, WaitTimeout, Errors, Codes, Goroutines
<1>5. TogetherInv' /\ AccessInv'
  BY <1>1, <1>2, <1>3 DEF TypeOK, TogetherInv, AccessInv, WaitTimeout, WorkerRuns, Returned, Descending, Goroutines
<1>6. VerdictInv'
  BY <1>1, <1>3 DEF TypeOK, VerdictInv, Carried, WaitTimeout, Returned, Descending, Goroutines
<1>7. RecordInv'
  BY <1>1, <1>2, <1>3 DEF TypeOK, RecordInv, SpanEnd, WaitTimeout, Returned, Descending, Goroutines
<1>8. PayloadInv'
  BY <1>1, <1>3 DEF TypeOK, PayloadInv, EntryReachesHandler, Present, PassesPayload, WaitTimeout, Descending, Goroutines
<1> QED  BY <1>3, <1>4, <1>5, <1>6, <1>7, <1>8

LEMMA StutterInv == ASSUME IInv, UNCHANGED vars PROVE IInv'
<1> USE DEF IInv, vars
<1>1. Present' = Present /\ \A link : PassesPayload(link)' = PassesPayload(link)
  BY DEF Present, PassesPayload
<1>2. TypeOK'
  BY DEF TypeOK
<1>3. PlaceInv'
  BY <1>1 DEF PlaceInv, WorkerRuns, Descending
<1>4. TogetherInv' /\ AccessInv'
  BY DEF TogetherInv, AccessInv, WorkerRuns, Returned, Descending
<1>5. VerdictInv'
  BY DEF VerdictInv, Carried, Returned, Descending
<1>6. RecordInv'
  BY DEF RecordInv, SpanEnd, Returned, Descending
<1>7. PayloadInv'
  BY <1>1 DEF PayloadInv, EntryReachesHandler, Descending
<1> QED  BY <1>2, <1>3, <1>4, <1>5, <1>6, <1>7

LEMMA StepInv == IInv /\ [Next]_vars => IInv'
<1> SUFFICES ASSUME IInv, [Next]_vars PROVE IInv'
  OBVIOUS
<1>1. ASSUME NEW g \in Goroutines, Step(g) PROVE IInv'
  BY <1>1, EnterInv, PassInv, RejectInv, UnwindLinkInv, RecoverPanicInv, LogReadInv,
     LogAfterInv, AfterInv DEF Step
<1>2. ASSUME NEW g \in Goroutines, HandlerStep(g) PROVE IInv'
  BY <1>2, HandlerWriteInv, HandlerWrittenInv, HandlerReturnInv, HandlerPanicInv
     DEF HandlerStep
<1> QED  BY <1>1, <1>2, StartWorkerInv, WaitFinishInv, WaitPanicInv, WaitTimeoutInv,
            AnswerInv, StutterInv DEF Next

LEMMA IInvHolds == Spec => []IInv
<1> QED  BY InitInv, StepInv, PTL DEF Spec

-----------------------------------------------------------------------------
(* Results. *)

(* The types of InterceptorChain hold in every reachable state.            *)
THEOREM TypeCorrect == Spec => []TypeOK
<1>1. IInv => TypeOK
  BY DEF IInv
<1> QED  BY <1>1, IInvHolds, PTL

(* No handler runs for a call that a guard rejected.                       *)
THEOREM GuardsFirst == Spec => []GuardsBeforeHandler
<1>1. IInv => GuardsBeforeHandler
  BY DEF IInv, TypeOK, VerdictInv, GuardsBeforeHandler
<1> QED  BY <1>1, IInvHolds, PTL

(* No panic leaves the chain; one that is in time is answered by its own   *)
(* status, and has been counted.                                           *)
THEOREM PanicRecovered == Spec => []PanicIsRecovered
<1>1. IInv => PanicIsRecovered
  <2> SUFFICES ASSUME IInv PROVE PanicIsRecovered
    OBVIOUS
  <2>1. ~(phase["main"] = "panic" /\ at["main"] = 0)
    BY DEF IInv, PlaceInv
  <2>2. ASSUME panicked # "no", phase["main"] = "done"
        PROVE  /\ ServerCode(err["main"]) =
                      IF timedOut THEN "Canceled" ELSE PanicError(panicked)
               /\ ~timedOut /\ "log" \in enabled => counted
    <3>1. ~timedOut => err["main"] = PanicError(panicked)
      BY <2>2 DEF IInv, VerdictInv, Carried, Returned
    <3>2. PanicError(panicked) \in {"Internal", "PanicStatus", "OK"}
      BY <2>2, PanicErrors DEF IInv, TypeOK, Panics
    <3>3. err["main"] = IF timedOut THEN "Canceled" ELSE PanicError(panicked)
      BY <3>1 DEF IInv, TogetherInv
    <3>4. ServerCode(err["main"]) = err["main"]
      BY <3>2, <3>3 DEF ServerCode, StatusCode, Raw, ContextErrors
    <3> QED  BY <2>2, <3>3, <3>4 DEF IInv, RecordInv, Returned
  <2>3. Answered => phase["main"] = "done" /\ answer = ServerCode(err["main"])
    BY DEF IInv, RecordInv, Answered
  <2> QED  BY <2>1, <2>2, <2>3 DEF PanicIsRecovered
<1> QED  BY <1>1, IInvHolds, PTL

(* A context's error is one that the handler returned: the timeout's and a *)
(* guard's are statuses, and a panic becomes one.                          *)
LEMMA ContextErrorIsReturned ==
    ASSUME IInv, Returned, err["main"] \in ContextErrors
    PROVE  served # "no" /\ panicked = "no" /\ ~timedOut
<1>1. ~timedOut
  BY DEF IInv, TogetherInv, ContextErrors
<1>2. err["main"] \in Carried
  BY <1>1 DEF IInv, VerdictInv
<1>3. PanicError(panicked) \notin ContextErrors \/ panicked = "no"
  BY PanicErrors DEF IInv, TypeOK, Panics, ContextErrors
<1> QED  BY <1>1, <1>2, <1>3 DEF Carried, ContextErrors

(* The interceptors have recorded the code the client got, in every        *)
(* configuration, save for a context's error that the handler returned as  *)
(* it is, which they record as Unknown.  The logging is the outermost      *)
(* link, so main has passed it when it is at the client; metrics and span  *)
(* are passed unless a panic skips them, and the span of a stream takes no *)
(* code, that of a success 2.                                              *)
THEOREM RecordedRight == Spec => []RecordedAsAnswered
<1>1. IInv => RecordedAsAnswered
  <2> SUFFICES ASSUME IInv, Answered PROVE RecordedAsAnswered
    BY DEF RecordedAsAnswered
  <2>1. /\ phase["main"] = "done" /\ Returned /\ at["main"] = 0
        /\ answer = ServerCode(err["main"])
    BY DEF IInv, PlaceInv, RecordInv, Answered, Returned
  <2>2. /\ Recorded = StatusCode(err["main"])
        /\ answer = "OK" <=> err["main"] = "OK"
    BY <2>1, MainErrors, CodesDiffer DEF Recorded
  <2>3. SpanEnd(err["main"]) = IF kind = "stream" THEN "ended"
                               ELSE IF answer = "OK" THEN "Unknown" ELSE Recorded
    BY <2>2 DEF SpanEnd
  <2>4. "log" \in enabled => logged = <<Recorded>>
    BY <2>1, <2>2 DEF IInv, RecordInv
  <2>5. ASSUME panicked # "no" => timedOut
        PROVE  /\ "prom" \in enabled => metric = <<Recorded>>
               /\ "trace" \in enabled => span = SpanEnd(err["main"])
    BY <2>1, <2>2, <2>5 DEF IInv, RecordInv
  <2> QED  BY <2>1, <2>3, <2>4, <2>5, ContextErrorIsReturned DEF RecordedAsAnswered
<1> QED  BY <1>1, IInvHolds, PTL

(* Only a stream that nothing but panic and timeout stands in front of     *)
(* gets to its handler without the entry's name.                           *)
THEOREM EntryReaches == Spec => []EntryReachesHandler
<1>1. IInv => EntryReachesHandler
  BY DEF IInv, PayloadInv
<1> QED  BY <1>1, IInvHolds, PTL

(* The goroutines of a call meet in the payload map only when the logging  *)
(* reads it behind a timeout: while main has not returned, its worker is   *)
(* not there or main waits for it.                                         *)
THEOREM RaceExplained == Spec => []RaceNeedsTimeout
<1>1. IInv => RaceNeedsTimeout
  <2> SUFFICES ASSUME IInv, access["worker"] # "none", access["main"] # "none"
               PROVE  timedOut /\ Link("main") = "log" /\ access["main"] = "read"
    BY DEF RaceNeedsTimeout
  <2>1. phase["worker"] \in {"before", "handling"}
    BY DEF IInv, AccessInv
  <2>2. phase["main"] = "after" /\ timedOut
    BY <2>1 DEF IInv, AccessInv, TogetherInv, Descending, WorkerRuns
  <2>3. Link("main") = "log"
    BY <2>2, ChainLinks DEF IInv, PlaceInv, Link
  <2>4. access["main"] = "read"
    BY <2>2 DEF IInv, AccessInv, TypeOK, Goroutines
  <2> QED  BY <2>2, <2>3, <2>4
<1> QED  BY <1>1, IInvHolds, PTL

-----------------------------------------------------------------------------
(* The accounted call. *)

LEMMA MeansCodes ==
    /\ Account!Means("rejected") = {"Unauthenticated", "ResourceExhausted"}
    /\ Account!Means("returned") = {"OK", "HandlerError", "Unknown", "Canceled",
                                    "DeadlineExceeded"}
    /\ Account!Means("panicked") = {"Internal", "PanicStatus"}
    /\ Account!Means("excused") = {"OK"}
    /\ Account!Means("open") = {}
BY DEF Account!Means

(* What the server sends for an error tells how the call came to it.       *)
LEMMA CarriedMeans ==
    ASSUME TypeOK, NEW e \in Carried PROVE ServerCode(e) \in Account!Means(Verdict)
<1>1. CASE panicked # "no"
  <2>1. e = PanicError(panicked) /\ panicked \in Panics
    BY <1>1 DEF Carried, TypeOK
  <2>2. e \in {"Internal", "PanicStatus", "OK"} /\ ServerCode(e) = e
    BY <2>1, PanicErrors DEF Panics, ServerCode, StatusCode, Raw, ContextErrors
  <2> QED  BY <2>1, <2>2, PanicErrors, MeansCodes DEF Panics, Verdict
<1>2. CASE panicked = "no" /\ served # "no"
  <2>1. ServerCode(e) \in {"OK", "HandlerError", "Unknown", "Canceled", "DeadlineExceeded"}
    BY <1>2 DEF Carried, ServerCode, StatusCode, Raw, ContextErrors
  <2> QED  BY <1>2, <2>1, MeansCodes DEF Verdict
<1>3. CASE panicked = "no" /\ served = "no"
  <2>1. rejected # {} /\ e \in {"Unauthenticated", "ResourceExhausted"}
    BY <1>3 DEF Carried
  <2>2. ServerCode(e) = e
    BY <2>1 DEF ServerCode, StatusCode, Raw, ContextErrors
  <2> QED  BY <1>3, <2>1, <2>2, MeansCodes DEF Verdict
<1> QED  BY <1>1, <1>2, <1>3

(* The code the server makes of main's error is one the accounted call may *)
(* tell, and the code the logging makes of it one it may record with it.   *)
LEMMA CodeIsTold ==
    ASSUME IInv, Returned
    PROVE  /\ ServerCode(err["main"]) \in Account!Told
           /\ StatusCode(err["main"]) \in Account!LoggedAs(ServerCode(err["main"]))
<1>1. CASE timedOut
  <2>1. /\ err["main"] = "Canceled" /\ "timeout" \in enabled
        /\ ServerCode("Canceled") = "Canceled" /\ StatusCode("Canceled") = "Canceled"
    BY <1>1 DEF IInv, TogetherInv, ServerCode, StatusCode, Raw, ContextErrors
  <2> QED  BY <2>1 DEF Account!Told, Account!LoggedAs, Account!OutOfTime
<1>2. CASE ~timedOut
  <2>1. ServerCode(err["main"]) \in Account!Means(Verdict) /\ err["main"] \in Carried
    BY <1>2, CarriedMeans DEF IInv, VerdictInv
  <2>2. CASE err["main"] \in ContextErrors
    <3>1. Verdict = "returned"
      BY <2>2, ContextErrorIsReturned DEF Verdict
    <3>2. /\ StatusCode(err["main"]) = "Unknown"
          /\ ServerCode(err["main"]) \in {"Canceled", "DeadlineExceeded"}
      BY <2>2 DEF StatusCode, ServerCode, Raw, ContextErrors
    <3> QED  BY <2>1, <3>1, <3>2 DEF Account!Told, Account!LoggedAs
  <2>3. CASE err["main"] \notin ContextErrors
    <3>1. StatusCode(err["main"]) = ServerCode(err["main"])
      BY <2>3, MainErrors, CodesDiffer
    <3>2. Verdict = "returned" => ServerCode(err["main"]) \notin {"Canceled", "DeadlineExceeded"}
      BY <2>1, <2>3 DEF Verdict, Carried, StatusCode, ServerCode, Raw, ContextErrors
    <3> QED  BY <2>1, <3>1, <3>2 DEF Account!Told, Account!LoggedAs
  <2> QED  BY <2>2, <2>3
<1> QED  BY <1>1, <1>2

(* A goroutine that descends does so before the answer or after a timeout. *)
LEMMA DescendingIsUnanswered ==
    ASSUME IInv, NEW g \in Goroutines, Descending(g)
    PROVE  Verdict = "open" /\ answer \in {"none", "Canceled"}
<1>1. Verdict = "open"
  BY DEF IInv, VerdictInv, Verdict, Goroutines
<1>2. CASE g = "main"
  BY <1>1, <1>2 DEF IInv, RecordInv, Descending
<1>3. CASE g = "worker"
  <2>1. phase["main"] = "wait" \/ timedOut
    BY <1>3 DEF IInv, TogetherInv, WorkerRuns, Descending
  <2>2. answer # "none" => answer = ServerCode("Canceled")
    BY <2>1 DEF IInv, TogetherInv, RecordInv
  <2> QED  BY <1>1, <2>2 DEF ServerCode, StatusCode, Raw, ContextErrors
<1> QED  BY <1>1, <1>2, <1>3 DEF Goroutines

LEMMA RejectDecides == ASSUME IInv, NEW g \in Goroutines, Reject(g) PROVE Account!Decide
<1>1. Verdict = "open" /\ answer \in {"none", "Canceled"}
  BY DescendingIsUnanswered DEF Reject, Descending
<1>2. Verdict' = "rejected"
  BY <1>1 DEF Reject, Verdict
<1> QED  BY <1>1, <1>2 DEF Reject, Account!Decide, config, records

LEMMA HandlerReturnDecides ==
    ASSUME IInv, NEW g \in Goroutines, HandlerReturn(g) PROVE Account!Decide
<1>1. Verdict = "open" /\ answer \in {"none", "Canceled"}
  BY DescendingIsUnanswered DEF HandlerReturn, HandlerEnds, Descending
<1>2. Verdict' = "returned"
  BY <1>1 DEF HandlerReturn, HandlerEnds, Verdict
<1> QED  BY <1>1, <1>2 DEF HandlerReturn, Account!Decide, config, records

LEMMA HandlerPanicDecides ==
    ASSUME IInv, NEW g \in Goroutines, HandlerPanic(g) PROVE Account!Decide
<1>1. Verdict = "open" /\ answer \in {"none", "Canceled"}
  BY DescendingIsUnanswered DEF HandlerPanic, HandlerEnds, Descending
<1>2. Verdict' \in {"panicked", "excused"}
  BY DEF HandlerPanic, Panics, Verdict
<1> QED  BY <1>1, <1>2 DEF HandlerPanic, Account!Decide, config, records

LEMMA LogAfterRecords == ASSUME IInv, NEW g \in Goroutines, LogAfter(g) PROVE Account!Record
<1>1. at[g] = 1 /\ "log" \in enabled /\ g = "main"
  <2>1. at[g] # 0
    BY DEF LogAfter, Link
  <2>2. at[g] = 1 /\ at[g] \in Present /\ enabled \subseteq Optional
    BY <2>1, Where, Links DEF LogAfter, Link
  <2>3. g = "main"
    BY <2>1, <2>2, Where DEF Goroutines
  <2> QED  BY <2>2, <2>3, PresentLinks
<1>2. logged = <<>> /\ answer = "none"
  BY <1>1 DEF LogAfter, IInv, RecordInv
<1>3. /\ ServerCode(err["main"]) \in Account!Told
      /\ StatusCode(err["main"]) \in Account!LoggedAs(ServerCode(err["main"]))
  BY <1>1, CodeIsTold DEF LogAfter, Returned
<1>4. logged' = <<StatusCode(err["main"])>>
  BY <1>1, <1>2, FirstRecord DEF LogAfter
<1>5. Verdict' = Verdict
  BY DEF LogAfter, Verdict
<1> QED  BY <1>1, <1>2, <1>3, <1>4, <1>5 DEF LogAfter, Account!Record, config

LEMMA AnswerAnswers == ASSUME IInv, Answer PROVE Account!Answer
<1>1. answer = "none" /\ answer' = ServerCode(err["main"])
  BY DEF Answer, IInv, RecordInv
<1>2. /\ ServerCode(err["main"]) \in Account!Told
      /\ StatusCode(err["main"]) \in Account!LoggedAs(ServerCode(err["main"]))
  BY CodeIsTold DEF Answer, Returned
<1>3. logged = IF "log" \in enabled THEN <<StatusCode(err["main"])>> ELSE <<>>
  BY DEF Answer, IInv, RecordInv
<1>4. Verdict' = Verdict
  BY DEF Answer, Verdict
<1> QED  BY <1>1, <1>2, <1>3, <1>4 DEF Answer, Account!Answer, config, records

(* No other step is one of the accounted call. *)
LEMMA OtherSteps ==
    ASSUME NEW g \in Goroutines,
           \/ Enter(g) \/ Pass(g) \/ UnwindLink(g) \/ RecoverPanic(g) \/ LogRead(g)
           \/ After(g) \/ HandlerWrite(g) \/ HandlerWritten(g)
           \/ StartWorker \/ WaitFinish \/ WaitPanic \/ WaitTimeout
           \/ UNCHANGED vars
    PROVE  UNCHANGED Account!vars
<1>1. UNCHANGED <<enabled, served, rejected, panicked, logged, answer>>
  BY DEF Enter, Pass, UnwindLink, RecoverPanic, LogRead, After, HandlerWrite,
         HandlerWritten, StartWorker, WaitFinish, WaitPanic, WaitTimeout, vars,
         config, records
<1> QED  BY <1>1 DEF Account!vars, Verdict

(* The chain is an accounted call: a guard or the handler decides,         *)
(* set.After of the logging records what status.Code makes of main's       *)
(* error, the client gets what the server makes of it; and a handler that  *)
(* decides after a timeout has no influence on either.                     *)
THEOREM ImplementsAccount == Spec => ImplementsAccountedCall
<1>1. Init => Account!Init
  BY DEF Init, Account!Init, Verdict
<1>2. IInv /\ [Next]_vars => [Account!Next]_(Account!vars)
  <2> SUFFICES ASSUME IInv, [Next]_vars, ~UNCHANGED Account!vars PROVE Account!Next
    OBVIOUS
  <2>0. "main" \in Goroutines
    BY DEF Goroutines
  <2>1. ASSUME NEW g \in Goroutines, Step(g) PROVE Account!Next
    BY <2>1, OtherSteps, RejectDecides, LogAfterRecords DEF Step, Account!Next
  <2>2. ASSUME NEW g \in Goroutines, HandlerStep(g) PROVE Account!Next
    BY <2>2, OtherSteps, HandlerReturnDecides, HandlerPanicDecides
       DEF HandlerStep, Account!Next
  <2>3. CASE Answer
    BY <2>3, AnswerAnswers DEF Account!Next
  <2>4. ~(StartWorker \/ WaitFinish \/ WaitPanic \/ WaitTimeout \/ UNCHANGED vars)
    BY <2>0, OtherSteps
  <2> QED  BY <2>1, <2>2, <2>3, <2>4 DEF Next
<1> QED  BY <1>1, <1>2, IInvHolds, PTL DEF Spec, ImplementsAccountedCall, Account!Spec

=============================================================================
