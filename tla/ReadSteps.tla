----------------------------- MODULE ReadSteps -----------------------------
(***************************************************************************)
(* The vocabulary in which the read commands are written down.  A command  *)
(* is a program: calls to the host, then, for each object that the last of *)
(* them listed, calls about that object.  A step says which call is made   *)
(* and what becomes of the troubles it can meet; a trouble it does not     *)
(* mention ends the command as the program's error mapping says.           *)
(***************************************************************************)
EXTENDS Naturals, Sequences, TLC

Troubles ==
  {"NoService",    \* D-Bus: ServiceUnknown or NameHasNoOwner
   "NoChannel",    \* the bridge closed the channel: not-found or not-supported
   "NoObject",     \* D-Bus: UnknownObject, NoSuchUnit, NXDOMAIN, an invalid zone
   "NoInterface",  \* D-Bus: UnknownInterface or UnknownProperty
   "NoMethod",     \* D-Bus: UnknownMethod
   "Refused",      \* any other D-Bus error
   "Denied",       \* the bridge closed the channel: access-denied
   "Odd"}          \* a reply of an unexpected shape

Effects == {"skip", "without", "empty", "fallback"}

\* How the errors of dbus_call come out when nothing maps them.
Raw ==
  [t \in Troubles |->
     CASE t = "NoChannel" -> "Channel"
       [] t = "Denied"    -> "AccessDenied"
       [] t = "Odd"       -> "Malformed"
       [] OTHER           -> "Dbus"]

\* map_service_unknown
ServiceMapped == [Raw EXCEPT !["NoService"] = "DependencyMissing"]

\* map_absent_service
AbsentMapped == [ServiceMapped EXCEPT !["NoChannel"] = "DependencyMissing"]

\* map_fw_error
FirewallMapped == [AbsentMapped EXCEPT !["NoMethod"] = "UnsupportedApi"]

\* A dict or list a command takes for empty when the reply does not give it.
Lax == "Odd" :> "empty"

\* A call to the host.
Step(call) == [call |-> call, on |-> "host", needs |-> "nothing", strict |-> {}, but |-> <<>>]
LaxStep(call) == [Step(call) EXCEPT !.but = Lax]

\* Properties.GetAll of an interface of the object at hand.  The decoder fails on the
\* properties in `strict` when they come in another form than it expects.
Get(iface, strict) == [Step(iface) EXCEPT !.on = "object", !.strict = strict]

\* The same of an interface that the object need not have.
Try(iface, strict) ==
  [Get(iface, strict) EXCEPT !.needs = iface, !.but = "NoInterface" :> "without"]

\* The same of another object that a property of the object at hand refers to; a
\* reference to "/" is none.
Follow(ref, strict) == [Get(ref, strict) EXCEPT !.on = "ref", !.needs = ref]

Ask == [errors |-> Raw,       \* what the troubles become that no step deals with
        first |-> <<>>,       \* the calls to the host
        lists |-> 0,          \* which of them lists objects
        named |-> FALSE,      \* the object is named by the user instead
        each |-> <<>>,        \* the calls about an object
        late |-> FALSE,       \* decodes when all of them are made, not one by one
        row |-> {},           \* what a row of the list itself must give
        bad |-> "Malformed",  \* what becomes of a row that does not
        passes |-> {},        \* what a row is passed over for, whatever `bad` says, if it does not give it
        filters |-> FALSE,    \* keeps the objects asked for only ...
        sieve |-> 0,          \* ... looking after that many calls, the row counted as one
        until |-> FALSE,      \* stops at the first it keeps
        must |-> FALSE,       \* NotFound if it keeps none
        bytes |-> FALSE,      \* compares a property that is an array of bytes
        pages |-> "no",       \* "rows": --offset and --limit; "lines", "tail": the newest --lines
        closes |-> FALSE,     \* the first call opens a session to be closed in the end
        checked |-> FALSE,    \* the arguments are validated before connecting
        service |-> ""]       \* the D-Bus name asked

\* Only calls to the host.
Flat(service, calls) == [Ask EXCEPT !.service = service, !.first = calls]
\* Everything the host lists, each with calls of its own.
Loop(service, calls, each) == [Flat(service, calls) EXCEPT !.lists = Len(calls), !.each = each]
\* The first of it that is the one asked for.
Scan(service, calls, each) ==
  [Loop(service, calls, each) EXCEPT
     !.filters = TRUE, !.sieve = 1, !.until = TRUE, !.must = TRUE]
=============================================================================
