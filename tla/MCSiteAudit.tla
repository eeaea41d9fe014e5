------------------------------ MODULE MCSiteAudit ------------------------------
EXTENDS LinkReports

CONSTANTS root, a, b, v, x

(* v spells page a; x and the sitemap s3 have fragments. *)
MCOf == [s \in Variant |-> IF s = v THEN a ELSE root]
===============================================================================
