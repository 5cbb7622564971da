--------------------- MODULE MCPstnAdmissionCoordinator ---------------------
EXTENDS PstnAdmissionCoordinator, TLC

CONSTANTS front, worker, c1, c2, globalKey

MCSharedKeys == {globalKey}
MCScopeKeys == [c \in Calls |-> {globalKey}]
MCLimit == [k \in {globalKey} \cup Workers |-> 1]
MCBucketsOf == [c \in Calls |-> {}]
MCPerBucket == [b \in {} |-> 0]
=============================================================================
