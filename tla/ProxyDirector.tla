--------------------------- MODULE ProxyDirector ---------------------------
(***************************************************************************)
(* The proxy's rules: their registration from the configuration            *)
(* (boot/grpc_entry.go, RegisterGrpcEntryYAML) and the Director built from *)
(* them (boot/proxy_entry.go, GetDirector), which several calls use at the *)
(* same time.  A director tries the rules by remote address, then those by *)
(* path, then those by header.  Within a kind the first rule that matches  *)
(* decides, and one of its destinations is drawn at random.                *)
(*                                                                         *)
(* A CIDR and a regular expression are names; Subnet and Matched say which *)
(* of them parse and what these contain.  The random source is shared and  *)
(* has no lock: a draw that another draw overlaps may index it out of      *)
(* range, which panics.                                                    *)
(***************************************************************************)
EXTENDS Integers, Sequences

CONSTANTS
    Calls,      \* the calls that reach the proxy
    Configs,    \* the configurations: sequences of rules
    Requests,   \* what a call may bring
    Subnet,     \* for each CIDR that parses, its addresses
    Matched,    \* for each regular expression that compiles, its methods
    Loopback6,  \* the text "::1"
    Localhost,  \* the text "localhost"
    Empty       \* the empty string

Texts == Seq(STRING)

(* One element of BootConfigProxy.Rules.  A header pair is what SplitN     *)
(* makes of it: two tokens, or one if the pair has no colon.               *)
Rule == [type : STRING, pairs : Seq(Texts), paths : Texts, ips : Texts,
         dest : Texts]

(* What the director reads of a call: the address in the gateway's header  *)
(* (Empty without one), the list x-forwarded-for, the peer, the method and *)
(* the metadata as pairs.                                                  *)
Request == [gateway : STRING, forwarded : Texts, peer : STRING,
            method : STRING, md : SUBSET (STRING \X STRING)]

ASSUME ConfigAssumption == Configs \subseteq Seq(Rule)
ASSUME RequestAssumption == \A q \in Requests : q \in Request
ASSUME TextAssumption ==
    Loopback6 \in STRING /\ Localhost \in STRING /\ Empty \in STRING

VARIABLES
    rules,      \* the configuration of this process
    next,       \* the rule that is registered next
    patterns,   \* per kind, the registered patterns, each named by its rule
    pc,         \* per call, its position in the director
    request,    \* per call, what it brings
    kind,       \* per call, the kind of rules it is tried against
    cursor,     \* per call, the pattern in the loop over that kind
    overlapped, \* per call, whether another draw overlapped its own
    dest        \* per call, the destination it was given

vars == <<rules, next, patterns, pc, request, kind, cursor, overlapped, dest>>
callVars == <<pc, request, kind, cursor, overlapped, dest>>

(* The kinds in the order in which GetDirector tries them. *)
Kinds == <<"ipBased", "pathBased", "headerBased">>

Decided == {"accepted", "failed", "refused", "panicked"}

Elements(s) == {s[i] : i \in DOMAIN s}

-----------------------------------------------------------------------------
(* What a rule says of a request. *)

Local(ip) == IF ip = Loopback6 THEN Localhost ELSE ip

(* GetRemoteAddressSet: the gateway's header, else x-forwarded-for, else   *)
(* the peer.                                                               *)
RemoteIp(q) ==
    CASE q.gateway # Empty -> Local(q.gateway)
      [] q.gateway = Empty /\ q.forwarded # <<>> -> Local(q.forwarded[1])
      [] OTHER -> Local(q.peer)

MatchesIp(r, q) ==
    \E cidr \in Elements(r.ips) \cap DOMAIN Subnet :
        RemoteIp(q) \in Subnet[cidr]

MatchesPath(r, q) ==
    \E regex \in Elements(r.paths) \cap DOMAIN Matched :
        q.method \in Matched[regex]

(* The map of headers: a pair without a value is skipped, and of two pairs *)
(* with the same key the later one stays.                                  *)
Headers(r) ==
    {r.pairs[i] : i \in {j \in DOMAIN r.pairs :
        /\ Len(r.pairs[j]) = 2
        /\ \A k \in DOMAIN r.pairs :
               k > j /\ Len(r.pairs[k]) = 2 => r.pairs[k][1] # r.pairs[j][1]}}

(* The key is looked up as written, while gRPC's keys are in lower case. *)
MatchesHeader(r, q) ==
    \A header \in Headers(r) : <<header[1], header[2]>> \in q.md

Matches(n, r, q) ==
    \/ n = 1 /\ MatchesIp(r, q)
    \/ n = 2 /\ MatchesPath(r, q)
    \/ n = 3 /\ MatchesHeader(r, q)

-----------------------------------------------------------------------------
Init ==
    /\ rules \in Configs
    /\ next = 1
    /\ patterns = [n \in 1..3 |-> <<>>]
    /\ pc = [c \in Calls |-> "new"]
    /\ request \in [Calls -> Requests]
    /\ kind = [c \in Calls |-> 1]
    /\ cursor = [c \in Calls |-> 1]
    /\ overlapped = [c \in Calls |-> FALSE]
    /\ dest = [c \in Calls |-> Empty]

(* One round of the loop over the configured rules.  A rule of any other   *)
(* type is dropped without a word.                                         *)
Register ==
    /\ next <= Len(rules)
    /\ next' = next + 1
    /\ patterns' = [n \in 1..3 |->
           IF rules[next].type = Kinds[n] THEN Append(patterns[n], next)
                                          ELSE patterns[n]]
    /\ UNCHANGED <<rules, callVars>>

(* The server starts behind the registration. *)
Arrive(c) ==
    /\ next > Len(rules)
    /\ pc[c] = "new"
    /\ pc' = [pc EXCEPT ![c] = "match"]
    /\ UNCHANGED <<rules, next, patterns, request, kind, cursor, overlapped,
                   dest>>

(* The pattern at the cursor, if the loop is not over. *)
Here(c) == patterns[kind[c]][cursor[c]]
AtPattern(c) == pc[c] = "match" /\ cursor[c] <= Len(patterns[kind[c]])
MatchesHere(c) == Matches(kind[c], rules[Here(c)], request[c])

(* Mutant of Skip: the first pattern that does not match ends its kind. *)
SkipRest(c) ==
    /\ AtPattern(c)
    /\ ~MatchesHere(c)
    /\ cursor' = [cursor EXCEPT ![c] = Len(patterns[kind[c]]) + 1]
    /\ UNCHANGED <<rules, next, patterns, pc, request, kind, overlapped, dest>>

Skip(c) ==
    /\ AtPattern(c)
    /\ ~MatchesHere(c)
    /\ cursor' = [cursor EXCEPT ![c] = @ + 1]
    /\ UNCHANGED <<rules, next, patterns, pc, request, kind, overlapped, dest>>

(* Mutant of ToNextKind: behind the last kind the first one again. *)
ToNextKindCyclic(c) ==
    /\ kind' = [kind EXCEPT ![c] = (@ % 3) + 1]
    /\ cursor' = [cursor EXCEPT ![c] = 1]
    /\ pc' = [pc EXCEPT ![c] = "match"]

(* Mutant of ToNextKind: the cursor is not reset. *)
ToNextKindSameCursor(c) ==
    \/ /\ kind[c] < 3
       /\ kind' = [kind EXCEPT ![c] = @ + 1]
       /\ pc' = [pc EXCEPT ![c] = "match"]
       /\ UNCHANGED cursor
    \/ /\ kind[c] = 3
       /\ pc' = [pc EXCEPT ![c] = "refused"]
       /\ UNCHANGED <<kind, cursor>>

(* Nothing of this kind decides the call: the next one, or "Unknown        *)
(* method" behind the last.                                                *)
ToNextKind(c) ==
    \/ /\ kind[c] < 3
       /\ kind' = [kind EXCEPT ![c] = @ + 1]
       /\ cursor' = [cursor EXCEPT ![c] = 1]
       /\ pc' = [pc EXCEPT ![c] = "match"]
    \/ /\ kind[c] = 3
       /\ pc' = [pc EXCEPT ![c] = "refused"]
       /\ UNCHANGED <<kind, cursor>>

KindIsOver(c) ==
    /\ pc[c] = "match"
    /\ cursor[c] > Len(patterns[kind[c]])
    /\ ToNextKind(c)
    /\ UNCHANGED <<rules, next, patterns, request, overlapped, dest>>

(* Mutant of MatchNoDest: the draw leaves out the last destination, so     *)
(* that a rule with one destination asks for Intn(0).                      *)
MatchOneDest(c) ==
    /\ AtPattern(c)
    /\ MatchesHere(c)
    /\ Len(rules[Here(c)].dest) <= 1
    /\ pc' = [pc EXCEPT ![c] = "panicked"]
    /\ UNCHANGED <<rules, next, patterns, request, kind, cursor, overlapped,
                   dest>>

(* Intn(0) panics. *)
MatchNoDest(c) ==
    /\ AtPattern(c)
    /\ MatchesHere(c)
    /\ rules[Here(c)].dest = <<>>
    /\ pc' = [pc EXCEPT ![c] = "panicked"]
    /\ UNCHANGED <<rules, next, patterns, request, kind, cursor, overlapped,
                   dest>>

(* The call enters the random source. *)
Match(c) ==
    /\ AtPattern(c)
    /\ MatchesHere(c)
    /\ rules[Here(c)].dest # <<>>
    /\ pc' = [pc EXCEPT ![c] = "draw"]
    /\ overlapped' = [d \in Calls |->
           \/ d # c /\ overlapped[d]
           \/ d # c /\ pc[d] = "draw"
           \/ d = c /\ \E e \in Calls : pc[e] = "draw"]
    /\ UNCHANGED <<rules, next, patterns, request, kind, cursor, dest>>

(* Mutant of Draw: an empty destination is dialled like any other. *)
DrawUnchecked(c) ==
    /\ pc[c] = "draw"
    /\ \E d \in Elements(rules[Here(c)].dest) : dest' = [dest EXCEPT ![c] = d]
    /\ pc' = [pc EXCEPT ![c] = "dial"]
    /\ UNCHANGED <<rules, next, patterns, request, kind, cursor, overlapped>>

(* The call leaves the random source with a destination.  With an empty    *)
(* one it goes on with the next kind, not with the next pattern.           *)
Draw(c) ==
    /\ pc[c] = "draw"
    /\ \E d \in Elements(rules[Here(c)].dest) :
           \/ /\ d # Empty
              /\ dest' = [dest EXCEPT ![c] = d]
              /\ pc' = [pc EXCEPT ![c] = "dial"]
              /\ UNCHANGED <<kind, cursor>>
           \/ /\ d = Empty
              /\ ToNextKind(c)
              /\ UNCHANGED dest
    /\ UNCHANGED <<rules, next, patterns, request, overlapped>>

(* An overlapped draw may find the source's indices out of range. *)
DrawPanic(c) ==
    /\ pc[c] = "draw"
    /\ overlapped[c]
    /\ pc' = [pc EXCEPT ![c] = "panicked"]
    /\ UNCHANGED <<rules, next, patterns, request, kind, cursor, overlapped,
                   dest>>

(* DialContext does not wait for the connection: it fails only on a target *)
(* it cannot use.                                                          *)
Dial(c) ==
    /\ pc[c] = "dial"
    /\ \E outcome \in {"accepted", "failed"} : pc' = [pc EXCEPT ![c] = outcome]
    /\ UNCHANGED <<rules, next, patterns, request, kind, cursor, overlapped,
                   dest>>

CallStep(c) ==
    \/ Skip(c)
    \/ KindIsOver(c)
    \/ MatchNoDest(c)
    \/ Match(c)
    \/ Draw(c)
    \/ DrawPanic(c)
    \/ Dial(c)

Next == Register \/ \E c \in Calls : Arrive(c) \/ CallStep(c)

Spec == Init /\ [][Next]_vars

(* A call in the director is a goroutine that waits for nothing. *)
FairSpec == Spec /\ \A c \in Calls : WF_vars(CallStep(c))

-----------------------------------------------------------------------------
(* What the configuration says, without loops, cursors or lists. *)

(* The rule that decides among those of the n-th kind, if there is one. *)
Deciding(n, q) ==
    {i \in DOMAIN rules :
        /\ rules[i].type = Kinds[n] /\ Matches(n, rules[i], q)
        /\ \A j \in 1..(i - 1) :
               rules[j].type = Kinds[n] => ~Matches(n, rules[j], q)}

(* The n-th kind leaves the request to the next one. *)
Passes(n, q) == \A i \in Deciding(n, q) : Empty \in Elements(rules[i].dest)

(* The destinations a request may have. *)
Routes(q) ==
    UNION {UNION {Elements(rules[i].dest) \ {Empty} : i \in Deciding(n, q)} :
               n \in {m \in 1..3 : \A k \in 1..(m - 1) : Passes(k, q)}}

(* Types of the variables. *)
TypeOK ==
    /\ rules \in Configs
    /\ next \in 1..(Len(rules) + 1)
    /\ patterns \in [1..3 -> Seq(1..Len(rules))]
    /\ pc \in [Calls -> {"new", "match", "draw", "dial"} \cup Decided]
    /\ request \in [Calls -> Requests]
    /\ kind \in [Calls -> 1..3]
    /\ cursor \in [Calls -> Nat \ {0}]
    /\ \A c \in Calls : cursor[c] <= Len(patterns[kind[c]]) + 1
    /\ overlapped \in [Calls -> BOOLEAN]
    /\ dest \in [Calls -> STRING]

(* Whatever other calls do meanwhile, a call is dialled to a destination   *)
(* of the first configured rule that matches it among the rules of the     *)
(* first kind that decides: address before path before header             *)
(* (GetDirector).                                                          *)
RoutedByRules ==
    \A c \in Calls : pc[c] \in {"dial", "accepted", "failed"}
                         => dest[c] \in Routes(request[c])

(* "Unknown method" is the answer only to a call that no kind of rules     *)
(* decides: none of its rules matches, or the one that does offers an      *)
(* empty destination (GetDirector, last line).                             *)
RefusedUnmatched ==
    \A c \in Calls : pc[c] = "refused"
                         => \A n \in 1..3 : Passes(n, request[c])

(* The director panics only for a rule without destinations that decides   *)
(* the call, or when two calls were in the shared random source at once.   *)
PanicNeedsCause ==
    \A c \in Calls : pc[c] = "panicked" =>
        \/ overlapped[c]
        \/ \E n \in 1..3 : \E i \in Deciding(n, request[c]) :
               rules[i].dest = <<>>

(* Every call that enters the director leaves it. *)
EveryCallDecided ==
    \A c \in Calls : pc[c] = "match" ~> pc[c] \in Decided

(* "Incoming remote IP should match user defined CIDR": a call that comes  *)
(* straight from an address in the CIDR of a rule by address is not        *)
(* answered with "Unknown method", if no rule has an empty destination.      *)
AddressInCidrIsRouted ==
    \A c \in Calls : pc[c] = "refused" =>
        ~ \E i \in DOMAIN rules :
              /\ rules[i].type = "ipBased"
              /\ \A j \in DOMAIN rules : Empty \notin Elements(rules[j].dest)
              /\ request[c].gateway = Empty /\ request[c].forwarded = <<>>
              /\ \E cidr \in Elements(rules[i].ips) \cap DOMAIN Subnet :
                     request[c].peer \in Subnet[cidr]

-----------------------------------------------------------------------------
(* The inductive invariant behind the three properties. *)

(* The patterns of a kind are the registered rules of its type, in order. *)
PatternInv ==
    \A n \in 1..3 :
        /\ \A p \in 1..Len(patterns[n]) :
               /\ patterns[n][p] \in 1..(next - 1)
               /\ rules[patterns[n][p]].type = Kinds[n]
               /\ \A o \in 1..(p - 1) : patterns[n][o] < patterns[n][p]
        /\ \A i \in 1..(next - 1) : rules[i].type = Kinds[n] =>
               \E p \in 1..Len(patterns[n]) : patterns[n][p] = i

(* A call in a loop has been passed on by the kinds before, and does not   *)
(* match a pattern before its cursor.                                      *)
LoopInv ==
    \A c \in Calls : pc[c] \in {"match", "draw"} =>
        /\ \A n \in 1..(kind[c] - 1) : Passes(n, request[c])
        /\ \A p \in 1..(cursor[c] - 1) :
               ~Matches(kind[c], rules[patterns[kind[c]][p]], request[c])

(* A call in the random source matches the pattern at its cursor. *)
DrawInv ==
    \A c \in Calls : pc[c] = "draw" =>
        cursor[c] <= Len(patterns[kind[c]]) /\ MatchesHere(c)

(* The rules are complete before the first call, which begins at the first *)
(* pattern of the first kind.                                              *)
StartInv ==
    \A c \in Calls :
        /\ pc[c] # "new" => next = Len(rules) + 1
        /\ pc[c] = "new" => kind[c] = 1 /\ cursor[c] = 1

(* What a call does in the director agrees with the configuration at every *)
(* step, by which each decision is right (GetDirector).                    *)
Inv ==
    /\ TypeOK /\ PatternInv /\ StartInv /\ LoopInv /\ DrawInv
    /\ RoutedByRules /\ RefusedUnmatched /\ PanicNeedsCause
=============================================================================
