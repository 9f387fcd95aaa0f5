---------------------------- MODULE MCTrustPolicy ----------------------------
(***************************************************************************)
(* A small instance of TrustPolicy.  Its behaviours tell one of two        *)
(* stories.  An owner with three passports also submits an evidence, which *)
(* it and somebody else challenge; or a submitter sends modules in many    *)
(* blocks, and two reporters may share an operator group.                  *)
(***************************************************************************)
EXTENDS TrustPolicy

CONSTANTS a, b, g, r

MCPassports == {<<a, 1>>, <<a, 2>>, <<a, 3>>, <<b, 1>>}

MCEvidence == {<<a, "proof">>, <<b, "proof">>}

E == <<a, "proof">>

MCChallenges == {<<E, a>>, <<E, b>>}

MCRecordLists == {<< <<E, b>> >>, << <<E, b>>, <<E, b>> >>, << <<E, a>> >>}

-----------------------------------------------------------------------------
Farming ==
  /\ block = 1 /\ evidence = <<>>
  /\ Args("ModuleSubmitted") = {}
  /\ Args("EvidenceSubmitted") \subseteq {E}

Spamming ==
  /\ passports = {} /\ reputation = <<>>
  /\ Args("AgentPassportRegistered") = {} /\ Args("ChallengeSubmitted") = {}
  /\ Len(events) + Len(evidence) < MaxInputs

\* Which of the two a behaviour is, is open until an input decides it.
StorySpec == Init /\ [][Next /\ (Farming \/ Spamming)']_vars

=============================================================================
