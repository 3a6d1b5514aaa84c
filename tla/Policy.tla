------------------------------- MODULE Policy -------------------------------
(***************************************************************************)
(* internal/policy: the selection directives a client puts in the proxy    *)
(* user name.  A user name is a sequence of directives, each a key and the *)
(* items its value splits into at "|"; a user name without "=" carries no  *)
(* directives.  Values are strings; what a value is (an address, a         *)
(* duration, a Boolean, ...) is given by constants.  "" is Go's empty      *)
(* string, "not given".  The sorted lists of a Policy are sets here: only  *)
(* membership is asked of them.                                            *)
(***************************************************************************)
EXTENDS Integers, Sequences, SequencesExt, FiniteSets

CONSTANTS
    Codes,      \* what isASCIICountryCode accepts
    Places,     \* safe tokens with a "-", as city= wants
    Addresses,  \* what netip.ParseAddr accepts
    Seconds,    \* spelling of a duration -> seconds
    Truths, Falsehoods,     \* spellings parseBool knows
    Unsafe,     \* what isSafeOpaqueToken rejects; "|" stays inside such a value
    Lower       \* strings.ToLower, where it changes something

\* What parseTTL returns has a sign, and an empty value is no duration.
ASSUME DurationAssumption == /\ "" \notin DOMAIN Seconds
                             /\ \A v \in DOMAIN Seconds : Seconds[v] \in Int
\* What is rendered as true reads as true.
ASSUME TruthAssumption == "1" \in Truths

Directives    == Seq([key : STRING, items : Seq(STRING)])
User(fields)  == [fields |-> fields, long |-> FALSE]   \* long: over MaxUsernameLen
NoUser        == User(<<>>)
lower(v)      == IF v \in DOMAIN Lower THEN Lower[v] ELSE v
isSafeOpaqueToken(v) == v \notin Unsafe \cup {"|"}

\* Lower case stays lower case.
ASSUME LowerAssumption == \A v \in DOMAIN Lower : lower(Lower[v]) = Lower[v]

ZeroPolicy == [AnyExit |-> FALSE, Countries |-> {}, Cities |-> {}, Slot |-> "",
               Provider |-> "", Session |-> "", TTL |-> 0, UniqueBatch |-> "",
               BatchTTL |-> 0, RecycleBatch |-> FALSE, HealthScope |-> "",
               ExcludeIPs |-> {}]
Refused == [refused |-> TRUE]       \* Parse returned an error

\* One directive.  A scalar value that contains "|" is no Boolean and no
\* duration, and no safe token either.  appendLower drops empty items.
apply(p, d) ==
    LET v     == IF Len(d.items) = 1 THEN d.items[1] ELSE "|"
        items == {lower(d.items[i]) : i \in DOMAIN d.items} \ {""}
        OrRefused(ok, q) == IF ok THEN q ELSE Refused
    IN
    IF p = Refused \/ d.items = <<>> THEN Refused ELSE
    CASE d.key = "any" -> OrRefused(v \in Truths \cup Falsehoods,
                                    [p EXCEPT !.AnyExit = v \in Truths])
      [] d.key = "cc" -> [p EXCEPT !.Countries = @ \cup items]
      [] d.key = "city" -> [p EXCEPT !.Cities = @ \cup items]
      [] d.key = "slot" -> [p EXCEPT !.Slot = v]
      [] d.key = "provider" -> [p EXCEPT !.Provider = v]
      [] d.key = "sess" -> [p EXCEPT !.Session = v]
      [] d.key = "ttl" -> OrRefused(v \in DOMAIN Seconds /\ Seconds[v] >= 0,
                                    [p EXCEPT !.TTL = Seconds[v]])
      [] d.key = "uniq" -> [p EXCEPT !.UniqueBatch = v]
      [] d.key = "brecycle" -> OrRefused(v \in Truths \cup Falsehoods,
                                         [p EXCEPT !.RecycleBatch = v \in Truths])
      [] d.key = "bttl" -> OrRefused(v \in DOMAIN Seconds /\ Seconds[v] > 0,
                                     [p EXCEPT !.BatchTTL = Seconds[v]])
      [] d.key = "health" -> [p EXCEPT !.HealthScope = v]
      [] d.key = "not" ->
           OrRefused(\A i \in DOMAIN d.items : d.items[i] \in Addresses,
                     [p EXCEPT !.ExcludeIPs = @ \cup {d.items[i] : i \in DOMAIN d.items}])
      [] OTHER -> Refused

valid(p) ==
    /\ \A v \in {p.Session, p.Slot, p.Provider, p.UniqueBatch, p.HealthScope} :
         isSafeOpaqueToken(v)
    /\ p.Countries \subseteq Codes
    /\ p.Cities \subseteq Places
    /\ p.BatchTTL > 0 => p.UniqueBatch # ""
    /\ p.AnyExit => p.Countries = {} /\ p.Cities = {} /\ p.Slot = ""

\* The directives from first to last; after[i] is what i of them amount to.
Applied(fields) ==
    LET after[i \in 0 .. Len(fields)] ==
          IF i = 0 THEN ZeroPolicy ELSE apply(after[i - 1], fields[i])
    IN  after[Len(fields)]

Parse(u) == LET p == Applied(u.fields)
            IN  IF u.long \/ p = Refused THEN Refused
                ELSE IF valid(p) THEN p ELSE Refused

\* RecycleBatch does not count as an expression.
IsZero(p) == [p EXCEPT !.RecycleBatch = FALSE] = ZeroPolicy

Given(key, v)  == IF v = "" THEN <<>> ELSE <<[key |-> key, items |-> <<v>>]>>
Listed(key, S) == IF S = {} THEN <<>> ELSE <<[key |-> key, items |-> SetToSeq(S)]>>
Lasting(key, n) == IF n = 0 THEN <<>>
                   ELSE Given(key, CHOOSE v \in DOMAIN Seconds : Seconds[v] = n)

\* Faulty: the lifetime of the batch is not rendered.
FaultyString(p) ==
    User((IF p.AnyExit THEN Given("any", "1") ELSE <<>>)
         \o Listed("cc", p.Countries) \o Listed("city", p.Cities)
         \o Given("slot", p.Slot) \o Given("provider", p.Provider)
         \o Given("sess", p.Session) \o Lasting("ttl", p.TTL)
         \o Given("uniq", p.UniqueBatch)
         \o Given("health", p.HealthScope) \o Listed("not", p.ExcludeIPs))

\* Policy.String.  "(none)" has no "=", so it is a user name without directives;
\* the separate not= directives it writes are one list here.  They, and durations
\* written out, can make the rendering longer than what was parsed: String stands
\* for the renderings that MaxUsernameLen still admits.
String(p) ==
    User((IF p.AnyExit THEN Given("any", "1") ELSE <<>>)
         \o Listed("cc", p.Countries) \o Listed("city", p.Cities)
         \o Given("slot", p.Slot) \o Given("provider", p.Provider)
         \o Given("sess", p.Session) \o Lasting("ttl", p.TTL)
         \o Given("uniq", p.UniqueBatch) \o Lasting("bttl", p.BatchTTL)
         \o Given("health", p.HealthScope) \o Listed("not", p.ExcludeIPs))
=============================================================================
