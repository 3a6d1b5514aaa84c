------------------------------- MODULE Batch -------------------------------
(***************************************************************************)
(* The unique-IP batch of internal/pool/pool.go (type batch): the exits a  *)
(* `uniq=` name has consumed.  A batch is a value; every operator returns  *)
(* the batch the method of the same name leaves behind.                    *)
(*                                                                         *)
(* usedIPs and burnSeq are one sequence here: `burned' lists the consumed  *)
(* addresses, the one burned longest ago first.  The code reads the burn   *)
(* times nowhere, compares sequence numbers only with each other, and      *)
(* stamps an address again whenever it re-enters usedIPs, so neither the   *)
(* numbers nor the ones release leaves behind in burnSeq can be observed.  *)
(* slotIPs is the set of <<slot, address>> pairs of the code's two-level   *)
(* map.  `served' is history the code does not keep: the slots that were   *)
(* consumed by this batch when their acquisition was committed.            *)
(*                                                                         *)
(* In this and the other modules a definition whose name starts with       *)
(* Faulty is not part of the model: it is the definition after it with a   *)
(* plausible mistake, which some property has to notice.                   *)
(***************************************************************************)
EXTENDS Subsequence

CONSTANT NoIP       \* the zero netip.Addr, for which IsValid() is false

newBatch(expiresAt) ==
    [usedSlots |-> {}, slotIPs |-> {}, burned |-> <<>>, expiresAt |-> expiresAt,
     served |-> {}]

usedIPs(b) == ToSet(b.burned)

\* Burns ip, or moves it to the back of the ring when it is burned already.
stampLocked(b, ip) ==
    [b EXCEPT !.burned = Append(Sift(@, {i \in DOMAIN @ : @[i] # ip}), ip)]

\* Faulty: the batch remembers slots only.
FaultyAddIP(b, s, ip) == b

addIP(b, s, ip) ==
    IF ip = NoIP \/ <<s, ip>> \in b.slotIPs
    THEN b
    ELSE stampLocked([b EXCEPT !.slotIPs = @ \cup {<<s, ip>>}], ip)

reserve(b, s, ip) == addIP([b EXCEPT !.usedSlots = @ \cup {s}], s, ip)

\* Faulty: forgets an address although another slot of the batch has it too.
FaultyRelease(b, s) ==
    [b EXCEPT !.usedSlots = @ \ {s},
              !.slotIPs = {pair \in @ : pair[1] # s},
              !.burned = Sift(@, {i \in DOMAIN @ : <<s, @[i]>> \notin b.slotIPs})]

\* The addresses attributed to s alone leave the batch with it.
release(b, s) ==
    LET others == {pair \in b.slotIPs : pair[1] # s}
        Kept(ip) == \/ <<s, ip>> \notin b.slotIPs
                    \/ \E pair \in others : pair[2] = ip
    IN  [b EXCEPT !.usedSlots = @ \ {s},
                  !.slotIPs = others,
                  !.burned = Sift(@, {i \in DOMAIN @ : Kept(@[i])})]
=============================================================================
