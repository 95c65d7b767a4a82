---------------------------- MODULE MailingList -----------------------------
(***************************************************************************)
(* The mailing list: the site's form (src/components/EmailForm.tsx and     *)
(* src/lib/subscribe.ts), the hub's public endpoint (services/hub/src/     *)
(* app.ts, subscribe.ts) and its two tables in D1 (d1-store.ts,            *)
(* migrations/0002_subscribers.sql).                                       *)
(*                                                                         *)
(* A request makes several statements against D1, and other requests run   *)
(* between them; a statement may fail, before or after it took effect; the *)
(* answer may not reach the form.  Meanwhile the owner of the list takes   *)
(* people off it.                                                          *)
(***************************************************************************)
EXTENDS Naturals, FiniteSets, Sequences

CONSTANTS
  Visitors,             \* each with one form
  IpOf,                 \* their addresses' hashes: [Visitors -> ips]
  Typed,                \* what each types: sets of [as, looks, is], `is` Absent if the hub refuses it
  MaxAttempts, Window,  \* subscribeRateLimit
  MaxRequests,          \* bound on the requests sent
  MaxNow, MaxLeaves,    \* bounds on the clock and on what the list's owner does
  Absent

MailAssumption ==
  /\ MaxAttempts \in Nat
  /\ Absent \notin Nat /\ Absent \notin [start : Nat, attempts : Nat, first : Nat]
  /\ Absent \notin [id : Nat, left : BOOLEAN]

VARIABLES
  now,
  forms,     \* [status, request]: the one in flight, or that succeeded, or Absent
  requests,  \* in the order sent: [by, typed, step, at, window, read, code, left]
  limits,    \* subscribe_rate_limits: ip -> [start, attempts, first], or Absent
  list,      \* subscribers: address -> [id, left], or Absent
  leaves

vars == <<now, forms, requests, limits, list, leaves>>

Ips == {IpOf[v] : v \in Visitors}
Addresses == {s.is : s \in UNION {Typed[v] : v \in Visitors}} \ {Absent}
InFlight(form) == form.status = "submitting"

Init ==
  /\ now = 1 /\ requests = <<>> /\ leaves = 0
  /\ forms = [v \in Visitors |-> [status |-> "idle", request |-> Absent]]
  /\ limits = [ip \in Ips |-> Absent] /\ list = [a \in Addresses |-> Absent]

Tick == now < MaxNow /\ now' = now + 1 /\ UNCHANGED <<forms, requests, limits, list, leaves>>

-----------------------------------------------------------------------------
(* The form.  A visitor types an address and submits it; a second submit    *)
(* while one is in flight does nothing (the inFlight latch).                *)

Failed == [status |-> "error", request |-> Absent]
Sent(v, s) ==
  [by |-> v, typed |-> s, step |-> "sent", at |-> 0, window |-> Absent, read |-> Absent, code |-> 0, left |-> FALSE]

Submit(v, s) ==
  /\ forms[v].status \in {"idle", "error"} /\ Len(requests) < MaxRequests
  /\ IF s.looks
     THEN /\ requests' = Append(requests, Sent(v, s))
          /\ forms' = [forms EXCEPT ![v] = [status |-> "submitting", request |-> Len(requests) + 1]]
     ELSE /\ forms' = [forms EXCEPT ![v] = Failed]
          /\ UNCHANGED requests
  /\ UNCHANGED <<now, limits, list, leaves>>

\* submitSubscription: the answer arrives, and only a 2xx is a success; or fetch
\* rejects, while the request goes on (Lost).
Answered(v) ==
  LET r == forms[v].request IN
  /\ InFlight(forms[v]) /\ requests[r].step = "answered"
  /\ forms' = [forms EXCEPT ![v] = IF requests[r].code = 202 THEN [@ EXCEPT !.status = "success"] ELSE Failed]
  /\ UNCHANGED <<now, requests, limits, list, leaves>>
Lost(v) ==
  /\ InFlight(forms[v])
  /\ forms' = [forms EXCEPT ![v] = Failed]
  /\ UNCHANGED <<now, requests, limits, list, leaves>>

-----------------------------------------------------------------------------
(* The hub's subscribe().                                                   *)

On(r, step) == r \in DOMAIN requests /\ requests[r].step = step
Goes(r, step) == requests' = [requests EXCEPT ![r].step = step]
Answer(r, code) == requests' = [requests EXCEPT ![r].step = "answered", ![r].code = code]

\* resolveRequestOrigin and the media type turn some requests away, or the clock is read.
Refuse(r) ==
  /\ On(r, "sent") /\ Answer(r, 403)
  /\ UNCHANGED <<now, forms, limits, list, leaves>>
Arrive(r) ==
  /\ On(r, "sent")
  /\ requests' = [requests EXCEPT ![r].step = "claim", ![r].at = now]
  /\ UNCHANGED <<now, forms, limits, list, leaves>>

\* claimSubscribeSlot: D1 runs the batch in one transaction.
Swept(at) == [ip \in Ips |-> IF limits[ip] # Absent /\ limits[ip].start <= at - Window THEN Absent ELSE limits[ip]]
Opened(r) == [start |-> requests[r].at, attempts |-> 1, first |-> r]

\* mutant: ON CONFLICT DO NOTHING
RowIgnored(r, row) == IF row = Absent THEN Opened(r) ELSE row

Row(r, row) == IF row = Absent THEN Opened(r) ELSE [row EXCEPT !.attempts = @ + 1]

Claim(r) ==
  LET ip == IpOf[requests[r].by]
      row == Row(r, Swept(requests[r].at)[ip]) IN
  /\ On(r, "claim")
  /\ limits' = [Swept(requests[r].at) EXCEPT ![ip] = row]
  /\ requests' = [requests EXCEPT ![r].step = "check", ![r].at = 0, ![r].window = row.first]
  /\ UNCHANGED <<now, forms, list, leaves>>

\* The SELECT that follows counts a missing row as one attempt; then the body is
\* read and parsed.
Check(r) ==
  LET row == limits[IpOf[requests[r].by]]
      admitted == row = Absent \/ row.attempts <= MaxAttempts
  IN
  /\ On(r, "check")
  /\ requests' = [requests EXCEPT
       ![r].step = IF admitted /\ requests[r].typed.is # Absent THEN "insert" ELSE "answered",
       ![r].code = IF ~admitted THEN 429 ELSE IF requests[r].typed.is = Absent THEN 422 ELSE 0,
       ![r].read = IF ~admitted \/ row = Absent THEN Absent ELSE row.first]
  /\ UNCHANGED <<now, forms, limits, list, leaves>>

\* addSubscriber: INSERT OR IGNORE, and for a row that is there UPDATE updated_at.
Insert(r) ==
  LET a == requests[r].typed.is IN
  /\ On(r, "insert")
  /\ IF list[a] = Absent
     THEN list' = [list EXCEPT ![a] = [id |-> r, left |-> FALSE]] /\ Answer(r, 202)
     ELSE Goes(r, "touch") /\ UNCHANGED list
  /\ UNCHANGED <<now, forms, limits, leaves>>
Touch(r) ==
  /\ On(r, "touch") /\ Answer(r, 202)
  /\ UNCHANGED <<now, forms, limits, list, leaves>>

\* A statement throws: 500.
Fail(r) ==
  /\ r \in DOMAIN requests /\ requests[r].step \in {"claim", "check", "insert", "touch"} /\ Answer(r, 500)
  /\ UNCHANGED <<now, forms, limits, list, leaves>>

-----------------------------------------------------------------------------
(* The owner of the list removes a person, or notes that one has left.      *)

Outstanding(a) ==
  [r \in DOMAIN requests |-> IF requests[r].typed.is = a THEN [requests[r] EXCEPT !.left = TRUE] ELSE requests[r]]
Remove(a) ==
  /\ leaves < MaxLeaves /\ list[a] # Absent
  /\ list' = [list EXCEPT ![a] = Absent] /\ requests' = Outstanding(a) /\ leaves' = leaves + 1
  /\ UNCHANGED <<now, forms, limits>>
Unsubscribe(a) ==
  /\ leaves < MaxLeaves /\ list[a] # Absent
  /\ list' = [list EXCEPT ![a].left = TRUE] /\ leaves' = leaves + 1
  /\ UNCHANGED <<now, forms, requests, limits>>

Next ==
  \/ Tick
  \/ \E v \in Visitors : (\E s \in Typed[v] : Submit(v, s)) \/ Answered(v) \/ Lost(v)
  \/ \E r \in 1 .. MaxRequests : Refuse(r) \/ Arrive(r) \/ Claim(r) \/ Check(r) \/ Insert(r) \/ Touch(r) \/ Fail(r)
  \/ \E a \in Addresses : Remove(a) \/ Unsubscribe(a)

Spec == Init /\ [][Next]_vars

-----------------------------------------------------------------------------
(* Properties.                                                              *)

\* Of the requests counted in one window (the row that request `first` opened) and
\* judged by it, at most MaxAttempts get in, whatever statements of theirs run in
\* between.  A request judged after its window was swept is not counted here.
Admitted(first) ==
  {r \in DOMAIN requests : requests[r].window = first /\ requests[r].read = first}

\* A form says that an address is on the list only if it is, or was and has been
\* taken off since it was sent; and a window lets in no more than its limit.
ListKeepsItsWord ==
  /\ \A v \in Visitors : forms[v].status = "success" =>
       LET r == requests[forms[v].request] IN r.typed.is # Absent /\ (list[r.typed.is] # Absent \/ r.left)
  /\ \A r \in DOMAIN requests : Cardinality(Admitted(r)) <= MaxAttempts
=============================================================================
