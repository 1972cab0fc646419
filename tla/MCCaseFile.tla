---- MODULE MCCaseFile ----
EXTENDS CaseFile
====
