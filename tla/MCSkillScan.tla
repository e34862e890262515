---------------------------- MODULE MCSkillScan -----------------------------
\* Instances of SkillScan for TLC.
EXTENDS SkillScan

BothProfiles == {"static", "semantic"}
SemanticOnly == {"semantic"}
=============================================================================
