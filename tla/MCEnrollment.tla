---------------------------- MODULE MCEnrollment ----------------------------
EXTENDS Enrollment

CONSTANTS a, b, ca

\* One persona enrolls, loses its key and enrolls again; a trailer or a label may claim
\* another.  The first pull request has one commit, the second as many as there are keys.
Own == [p \in Personas |-> ca]
Keys == [p \in Personas |-> 2]
Commits == [n \in PRs |-> n]
=============================================================================
