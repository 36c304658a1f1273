------------------------------ MODULE MCPolicy ------------------------------
EXTENDS Policy, TLC

CONSTANTS plain, tin, sdk

MCProtocol == [k \in Config |-> IF k = tin THEN "tinfoil" ELSE IF k = sdk THEN "sdk" ELSE "plain"]
MCServes == [k \in Config |-> IF k = plain THEN {"chat"} ELSE {"chat", "vision"}]

Base == [kind |-> "unary", pin |-> None, allowed |-> Endpoint, cap |-> "chat",
         payload |-> "text", inputs |-> {}, reader |-> TRUE, narrow |-> None]

\* An image with an object and an artifact; the object under a narrowing; a pinned
\* stream; a payload that is refused; a follow-up.
MCAsking ==
  {[Base EXCEPT !.payload = "image", !.inputs = {"object", "artifact"}],
   [Base EXCEPT !.inputs = {"object"}, !.narrow = [denied |-> {"vision"}, level |-> High]],
   [Base EXCEPT !.kind = "stream", !.pin = 1], [Base EXCEPT !.payload = "barred"],
   [Base EXCEPT !.kind = "manage", !.pin = 1]}

MCRestriction ==
  {Unrestricted, [denied |-> {"vision"}, level |-> 0], [denied |-> {}, level |-> High]}

MCSeed == [e \in Endpoint |-> IF e = 1 THEN [config |-> sdk, on |-> TRUE, stamp |-> 0] ELSE None]

MCSymmetry == Permutations(Call) \cup Permutations(Edit)
=============================================================================
