----------------------------- MODULE Extractor -----------------------------
(***************************************************************************)
(* get_event_data(result, eventSignature) of util/txResult.ts: trim the    *)
(* signature, split it on '.', insist on exactly two parts                 *)
(* "<section>.<method>", and return the data of the first event record of  *)
(* the result with that section and method (SubmittableResult.findRecord), *)
(* else throw.                                                             *)
(*                                                                         *)
(* A signature is a sequence of tokens: a name (one section or method      *)
(* name, standing for its characters), "." or " ".  Two adjacent names     *)
(* spell a longer word that is no name.  The implementation below follows  *)
(* the code's scans; Reference states the result without recursion, and   *)
(* the run compares the two on every signature and event list up to the   *)
(* bounds.                                                                 *)
(***************************************************************************)
EXTENDS Naturals, Sequences, SequencesExt

CONSTANTS
    Sections,    \* pallet names, e.g. common, system
    Methods,     \* event names, e.g. CollectionCreated, ItemCreated
    Data,        \* event payloads
    MaxSigLen,   \* bound on the tokens of a signature
    MaxEvents    \* bound on the events of a result

ASSUME NamesAssumption ==
    /\ Sections \cap Methods = {}
    /\ "." \notin Sections \cup Methods /\ " " \notin Sections \cup Methods
ASSUME BoundsAssumption == MaxSigLen \in Nat /\ MaxEvents \in Nat

Tokens == Sections \cup Methods \cup {".", " "}

EventRecord == [section : Sections, method : Methods, data : Data]

(* The results get_event_data can produce: a payload or one of the two     *)
(* Errors it throws.                                                       *)
Outcomes == Data \cup {"incorrectSignature", "notFound"}

VARIABLES
    signature,   \* the eventSignature argument
    events,      \* result.events, in emission order
    outcome      \* what get_event_data returned or threw

vars == <<signature, events, outcome>>

-----------------------------------------------------------------------------
(* String.prototype.trim on the signature.                                 *)
RECURSIVE TrimStart(_)
TrimStart(s) == IF s # <<>> /\ Head(s) = " " THEN TrimStart(Tail(s)) ELSE s

RECURSIVE TrimEnd(_)
TrimEnd(s) == IF s # <<>> /\ Last(s) = " " THEN TrimEnd(Front(s)) ELSE s

(* Mutation: only leading spaces are trimmed.                              *)
trim_start_only(s) == TrimStart(s)

trim(s) == TrimEnd(TrimStart(s))

(* String.prototype.split('.'): the pieces between dots, empty ones kept. *)
RECURSIVE split(_)
split(s) ==
    IF ~Contains(s, ".") THEN <<s>>
    ELSE LET k == SelectInSeq(s, LAMBDA c : c = ".")
         IN  <<SubSeq(s, 1, k - 1)>> \o split(SubSeq(s, k + 1, Len(s)))

(* A piece of the signature equals the name n.                             *)
Spells(piece, n) == piece = <<n>>

(* SubmittableResult.findRecord(section, method): the first record of the *)
(* events with that section and method (a one-element sequence), or      *)
(* <<>> for undefined.                                                     *)
RECURSIVE findRecord(_, _, _)
findRecord(evs, section, method) ==
    IF evs = <<>> THEN <<>>
    ELSE IF Spells(section, Head(evs).section) /\ Spells(method, Head(evs).method)
         THEN <<Head(evs)>>
         ELSE findRecord(Tail(evs), section, method)

(* Mutation: the record's method is returned instead of its data.          *)
get_event_record(evs, eventSignature) ==
    LET parts == split(trim(eventSignature)) IN
    IF Len(parts) # 2 THEN "incorrectSignature"
    ELSE LET record == findRecord(evs, parts[1], parts[2])
         IN  IF record = <<>> THEN "notFound" ELSE record[1].method

get_event_data(evs, eventSignature) ==
    LET parts == split(trim(eventSignature)) IN
    IF Len(parts) # 2 THEN "incorrectSignature"
    ELSE LET record == findRecord(evs, parts[1], parts[2])
         IN  IF record = <<>> THEN "notFound" ELSE record[1].data

-----------------------------------------------------------------------------
(* The same result stated directly: the signature without its outer        *)
(* spaces must hold exactly one dot, and the answer is the data of the     *)
(* lowest-indexed event named by the two sides of the dot.                 *)
Reference(evs, sig) ==
    LET inner  == {i \in 1..Len(sig) : sig[i] # " "}
        t      == IF inner = {} THEN <<>>
                  ELSE SubSeq(sig, Min(inner), Max(inner))
        dots   == {i \in 1..Len(t) : t[i] = "."}
    IN  IF Cardinality(dots) # 1 THEN "incorrectSignature"
        ELSE LET k   == CHOOSE d \in dots : TRUE
                 sec == SubSeq(t, 1, k - 1)
                 met == SubSeq(t, k + 1, Len(t))
                 hit == SelectInSeq(evs, LAMBDA e : Spells(sec, e.section)
                                                    /\ Spells(met, e.method))
             IN  IF hit = 0 THEN "notFound" ELSE evs[hit].data

-----------------------------------------------------------------------------
Init ==
    /\ signature \in BoundedSeq(Tokens, MaxSigLen)
    /\ events \in BoundedSeq(EventRecord, MaxEvents)
    /\ outcome = "pending"

(* A caller such as StateInitializer.createCollection extracts the event  *)
(* data from the result its promise resolved with.                         *)
Evaluate ==
    /\ outcome = "pending"
    /\ outcome' = get_event_data(events, signature)
    /\ UNCHANGED <<signature, events>>

Spec == Init /\ [][Evaluate]_vars

-----------------------------------------------------------------------------
ExtractorTypeOK ==
    /\ signature \in Seq(Tokens)
    /\ events \in Seq(EventRecord)
    /\ outcome \in Outcomes \cup {"pending"}

(* get_event_data accepts exactly the signatures with one dot once trimmed *)
(* and returns the first matching event's data (spec 4.2: positional       *)
(* field contracts rely on getting the first record, not any record).     *)
EventDataMatchesReference ==
    outcome # "pending" => outcome = Reference(events, signature)
=============================================================================
