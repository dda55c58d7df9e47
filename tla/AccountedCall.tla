----------------------------- MODULE AccountedCall -----------------------------
(***************************************************************************)
(* What a client, a log and a handler may rely on when a call goes through *)
(* a server's interceptors: the handler is run or the call is rejected, at *)
(* most one of them and once; the client is answered once, with a code     *)
(* that tells which; and the log has one record of the call when it is     *)
(* answered.  The record has the client's code, with one exception: where  *)
(* a handler returns the error of a context that ended, the client is told *)
(* so and the record has Unknown.                                          *)
(***************************************************************************)
VARIABLES logging,   \* the calls of this server are logged
          limited,   \* and have a time limit; neither ever changes
          verdict,   \* open, or what became of the call at the handler
          records,   \* the codes in the log
          outcome    \* the code the client has, or none

vars == <<logging, limited, verdict, records, outcome>>

(* The codes that tell a verdict; a call that is out of time has its own,  *)
(* whatever its verdict is or will be.  A panic that carries the status OK *)
(* is excused: the client is told of a success.                            *)
Means(v) ==
    CASE v = "open"     -> {}
      [] v = "rejected" -> {"Unauthenticated", "ResourceExhausted"}
      [] v = "returned" -> {"OK", "HandlerError", "Unknown", "Canceled",
                            "DeadlineExceeded"}
      [] v = "panicked" -> {"Internal", "PanicStatus"}
      [] v = "excused"  -> {"OK"}

OutOfTime == IF limited THEN {"Canceled"} ELSE {}

Told == Means(verdict) \cup OutOfTime

(* The records a call that is answered with c may have in the log.         *)
LoggedAs(c) ==
    IF verdict = "returned" /\ c \in {"Canceled", "DeadlineExceeded"}
      THEN {"Unknown"} \cup (OutOfTime \cap {c})
      ELSE {c}

Init ==
    /\ {logging, limited} \subseteq BOOLEAN
    /\ verdict = "open" /\ records = <<>> /\ outcome = "none"

(* Only the handler of a call that is out of time gets here behind the     *)
(* answer.                                                                 *)
Decide ==
    /\ verdict = "open" /\ outcome \in {"none", "Canceled"}
    /\ verdict' \in {"rejected", "returned", "panicked", "excused"}
    /\ UNCHANGED <<logging, limited, records, outcome>>

Record ==
    /\ logging /\ records = <<>> /\ outcome = "none"
    /\ \E c \in Told : \E r \in LoggedAs(c) : records' = <<r>>
    /\ UNCHANGED <<logging, limited, verdict, outcome>>

Answer ==
    /\ outcome = "none" /\ outcome' \in Told
    /\ IF logging THEN \E r \in LoggedAs(outcome') : records = <<r>>
                  ELSE records = <<>>
    /\ UNCHANGED <<logging, limited, verdict, records>>

Next == Decide \/ Record \/ Answer

Spec == Init /\ [][Next]_vars
=============================================================================
