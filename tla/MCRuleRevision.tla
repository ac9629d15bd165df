--------------------------- MODULE MCRuleRevision ---------------------------
\* One revision, three users, two requests under way.
EXTENDS RuleRevision
=============================================================================
