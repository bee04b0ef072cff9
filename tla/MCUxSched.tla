----------------------------- MODULE MCUxSched -----------------------------
(* Small instances of UxSched for TLC.                                     *)
EXTENDS UxSched

CONSTANTS t1, t2, c1, c2

\* UX_TASK_TAGS_DEFAULT with the shortest slice, and UX_TASK_TAGS_EXACT one
\* level above it; UX_TASK_TAGS_KWORKER as the work-queue hook sets it.
DefaultTags == [NoTags EXCEPT !.sprio = 1]
ExactTags   == [NoTags EXCEPT !.sprio = 2, !.slice = 1, !.flags = {"EXACT"}]
KworkerTags == [NoTags EXCEPT !.sprio = 3, !.dprio = 1, !.flags = {"KWORKER"}]

MCSliceLen == [s \in 0..1 |-> s + 1]
MCShareLimit == [k \in ShareTypes |-> 2]

OneTask  == {t1}
TwoTasks == {t1, t2}
OneCpu   == {c1}
TwoCpus  == {c1, c2}
NoSet    == {}

DefaultRequests == {DefaultTags, NoTags}
StackRequests   == {DefaultTags, ExactTags, KworkerTags, NoTags}

AllShifts == {"RAISE", "LOWER", "REBASE"}
FixedFeatures   == {{"DEFAULT", "UX_SHARE"}}
KworkerFeatures == {{}, {"DEFAULT"}, {"DEFAULT", "KWORKER"}}
AllScenes  == {{}, {"LAUNCH"}, {"ANIMATION"}}
AnimationOnOff == {{"ANIMATION"}}

=============================================================================
