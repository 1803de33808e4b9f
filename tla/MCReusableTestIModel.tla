---- MODULE MCReusableTestIModel ----
\* Values for the constants of ReusableTestIModel.
EXTENDS ReusableTestIModel

\* the second of two changesets is in no group
OneGroup == <<{1}>>
OneData == <<1>>
BothNamed == <<1, 2>>
====
