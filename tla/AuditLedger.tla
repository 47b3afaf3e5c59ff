---------------------------- MODULE AuditLedger -----------------------------
(***************************************************************************)
(* What the reference store promises of admin_audit_log, with no tables,   *)
(* locks, batches under way or concurrency: a log that only grows, by the  *)
(* entries of one request at a time, each a legal next step of the record  *)
(* it names, so that what is stored can be read off the log.               *)
(***************************************************************************)
EXTENDS Integers, Sequences

CONSTANTS Records,     \* server record identifiers (uuid4)
          Externals,   \* pairs of source and external_id
          Naturals,    \* (vendor_key, purchase_order_number), or vendor_id
          NoNatural,   \* invoices have no natural key
          Contents,    \* facts and line items of a record
          NoContent    \* no line items

ASSUME NaturalAssumption == NoNatural \notin Naturals
ASSUME ContentAssumption == NoContent \notin Contents

Kind == {"invoice", "purchase_order", "vendor"}

AuditOperation == {"create", "update", "delete", "import"}

(* A record as one JSON image: its own columns and those of its children.  *)
Image == [kind     : Kind,
          external : Externals,
          natural  : Naturals \cup {NoNatural},
          head     : Contents,
          lines    : Contents \cup {NoContent}]

(* JSON null: there is no record.                                          *)
NoImage == [kind |-> "none"]

Entry == [op     : AuditOperation,
          record : Records,
          before : Image \cup {NoImage},
          after  : Image \cup {NoImage}]

-----------------------------------------------------------------------------
(* The entries of a record among the first n of log l.                     *)
Mentions(l, n, rec) == {i \in 1..n : l[i].record = rec}

Last(S) == CHOOSE i \in S : \A j \in S : j <= i

(* What the first n entries of l say is stored under rec.                  *)
ImageAt(l, n, rec) ==
    IF Mentions(l, n, rec) = {} THEN NoImage
    ELSE l[Last(Mentions(l, n, rec))].after

(* The images may not both be stored.                                      *)
Clash(a, b) ==
    /\ a # NoImage /\ b # NoImage
    /\ a.kind = b.kind
    /\ a.external = b.external \/ (a.natural = b.natural /\ a.natural # NoNatural)

SameIdentity(a, b) == a.kind = b.kind /\ a.external = b.external

(* Entry i of l is a legal step after the i - 1 before it: a record is     *)
(* created once under an identifier never used, keeps its kind and its     *)
(* provenance, takes nobody's key, and is not brought back.                *)
Legal(l, i) ==
    LET e == l[i]
        was == ImageAt(l, i - 1, e.record)
        New == e.op \in {"create", "import"} /\ Mentions(l, i - 1, e.record) = {}
        Replaced == /\ e.op \in {"update", "import"}
                    /\ was # NoImage
                    /\ SameIdentity(e.after, was)
    IN  \/ /\ e.after # NoImage
           /\ New \/ Replaced
           /\ \A x \in Records \ {e.record} : ~Clash(e.after, ImageAt(l, i - 1, x))
        \/ /\ e.op = "delete"
           /\ e.after = NoImage
           /\ Mentions(l, i - 1, e.record) # {}

-----------------------------------------------------------------------------
VARIABLE log

(* One request appends its entries; only an import has more than one.      *)
AppendEntries ==
    LET new == (Len(log) + 1)..Len(log')
    IN  /\ log' \in Seq(Entry)
        /\ Len(log) < Len(log')
        /\ \A i \in 1..Len(log) : log'[i] = log[i]
        /\ \A i \in new : log'[i].op = "import" \/ new = {i}
        /\ \A i \in new : Legal(log', i)

LedgerInit == log = <<>>

LedgerSpec == LedgerInit /\ [][AppendEntries]_log
=============================================================================
