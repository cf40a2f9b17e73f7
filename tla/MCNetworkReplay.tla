-------------------------- MODULE MCNetworkReplay --------------------------
(***************************************************************************)
(* The plan of one installation for NetworkReplay.                         *)
(***************************************************************************)
EXTENDS NetworkReplay, Planning, TLC

OneTree == [n \in {"site"} |-> {n}]
PlannedNames ==
    LET plan == OfThese(Build(OneTree), StepName)
    IN [i \in DOMAIN plan |-> plan[i].name]
\* Evaluated once, unlike a definition that a constant stands for directly.
Steps == PlannedNames

Kind(network, subdomains, overlaps, https) ==
    [network |-> network, subdomains |-> subdomains, overlaps |-> overlaps, https |-> https]
AllKinds ==
    {Kind(FALSE, FALSE, overlaps, FALSE) : overlaps \in BOOLEAN}
    \cup {Kind(TRUE, FALSE, overlaps, FALSE) : overlaps \in BOOLEAN}
    \cup {Kind(TRUE, TRUE, FALSE, TRUE)}

TwoBlogs == [b \in Blogs |-> IF b = Main THEN "1" ELSE "-1"]
OneOrTwo == {[present |-> present, public |-> TwoBlogs] : present \in {{Main}, Blogs}}

=============================================================================
