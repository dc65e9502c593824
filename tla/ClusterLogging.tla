----------------------------- MODULE ClusterLogging -----------------------------
(***************************************************************************)
(* The clusterlogging-validation hook (pkg/webhooks/clusterlogging).  The  *)
(* spec of a ClusterLogging is its retention policy [app, infra, audit],   *)
(* or None; each is None or a MaxAge [number, unit].  A unit outside Units *)
(* stands for every MaxAge that reTimeUnit does not match.                 *)
(***************************************************************************)
EXTENDS HookRequests

Units == {"y", "M", "w", "d", "h", "H", "m", "s"}

rules == {Rule({"CREATE", "UPDATE"}, {"logging.openshift.io"}, {"clusterloggings"})}

Validate(r) == r.user.username # "" /\ r.kind = "ClusterLogging"

renderClusterLogging(r) == OldElseNew(r)

\* Whether the text has the form of a time and the number fits an integer.
parseTimeUnit(age) == age.unit \in Units /\ age.number < Uint

Times(number, factor) == (number * factor) % Uint

\* The ifs of convertToSeconds, each falling into the next: to days, to hours,
\* to minutes, to seconds.
toDays(number, unit) ==
    CASE unit = "y" -> Times(number, 365)
      [] unit = "M" -> Times(number, 31)
      [] unit = "w" -> Times(number, 7)
      [] OTHER -> number

toHours(number, unit) ==
    IF unit \in {"y", "M", "w", "d"} THEN Times(toDays(number, unit), 24) ELSE number

\* Faulty variant: "H" is forgotten.
toMinutesWithoutH(number, unit) ==
    IF unit \in {"y", "M", "w", "d", "h"} THEN Times(toHours(number, unit), 60) ELSE number

toMinutes(number, unit) ==
    IF unit \in {"y", "M", "w", "d", "h", "H"} THEN Times(toHours(number, unit), 60) ELSE number

convertToSeconds(number, unit) ==
    IF unit # "s" THEN Times(toMinutes(number, unit), 60) ELSE number

le(lhs, rhs) == convertToSeconds(lhs.number, lhs.unit) <= convertToSeconds(rhs.number, rhs.unit)

Age(n, u) == [number |-> n, unit |-> u]
Bounds(lower, upper) == [lowerBound |-> lower, upperBound |-> upper]
appValidator == Bounds(Age(1, "h"), Age(7, "d"))
infraValidator == Bounds(Age(1, "h"), Age(1, "h"))
auditValidator == Bounds(Age(1, "h"), Age(1, "h"))

isAllowed(validator, age) == le(validator.lowerBound, age) /\ le(age, validator.upperBound)

checkPolicy(validator, age) ==
    IF age = None THEN "deny"
    ELSE IF ~parseTimeUnit(age) THEN "error"
    ELSE Verdict(isAllowed(validator, age))

\* The first check that fails is the answer.  Spec.LogStore and its
\* RetentionPolicy are pointers that are dereferenced.
authorized(r) ==
    LET logging == renderClusterLogging(r)
        app == checkPolicy(appValidator, logging.spec.app)
        infra == checkPolicy(infraValidator, logging.spec.infra)
    IN  IF logging = None THEN "error"
        ELSE IF logging.spec = None THEN "panic"
        ELSE IF app # "allow" THEN app
        ELSE IF infra # "allow" THEN infra
        ELSE checkPolicy(auditValidator, logging.spec.audit)
=============================================================================
