---------------------------- MODULE PassportEndpoints ----------------------------
(***************************************************************************)
(* The endpoints of passports, one action per endpoint: its inputs and the *)
(* request of the service that it becomes.                                 *)
(***************************************************************************)
EXTENDS DocumentRequests

ApiModifyShell ==
    \E u \in Users, m \in ShellModifications : Handle(modifyShellOf("Passport", u, m))
ApiCreateSubmodel ==
    \E u \in Users, s \in NewSubmodels : Handle(createSubmodel("Passport", u, s))
ApiDeletePolicyBySubjectAndObject ==
    \E u \in Users, p \in Paths : Handle(deletePolicyOf("Passport", u, p))
ApiDeleteSubmodel ==
    \E u \in Users, s \in document.submodels : Handle(deleteSubmodel("Passport", u, s))
ApiModifySubmodel ==
    \E u \in Users, s \in document.submodels : \E m \in TextOf(s) :
        Handle(modifySubmodelOf("Passport", u, s, m))
ApiModifyValueOfSubmodel ==
    \E u \in Users, s \in document.submodels : \E ms \in ValuesBelow(s) :
        Handle(modifyValueOf("Passport", u, s, ms))
ApiAddColumnToSubmodelElementList ==
    \E u \in Users, t \in Tables, name \in NewNames \cup NewGroups, e \in NewColumns :
        Handle(addColumnToSubmodelElementList("Passport", u, t, name, e))
ApiModifyColumnOfSubmodelElementList ==
    \E u \in Users, t \in Tables : \E name \in ColumnsOf(t), m \in TextOf(t) :
        Handle(modifyColumnOfSubmodelElementList("Passport", u, t, name, m))
ApiDeleteColumnFromSubmodelElementList ==
    \E u \in Users, t \in Tables : \E name \in ColumnsOf(t) :
        Handle(deleteColumnFromSubmodelElementList("Passport", u, t, name))
ApiAddColumnToGroupInSubmodelElementList ==
    \E u \in Users, t \in Tables, name \in NewNames, e \in NewCells : \E group \in ColumnsOf(t) :
        Handle(addColumnToGroupInSubmodelElementList("Passport", u, t, group, name, e))
ApiModifyColumnInGroupOfSubmodelElementList ==
    \E u \in Users, t \in Tables : \E group \in GroupsOf(t) :
        \E name \in ColumnsIn(t, group), m \in TextOf(t) :
            Handle(modifyColumnInGroupOfSubmodelElementList("Passport", u, t, group, name, m))
ApiDeleteColumnFromGroupInSubmodelElementList ==
    \E u \in Users, t \in Tables : \E group \in GroupsOf(t) : \E name \in ColumnsIn(t, group) :
        Handle(deleteColumnFromGroupInSubmodelElementList("Passport", u, t, group, name))
ApiMoveColumnToGroupInSubmodelElementList ==
    \E u \in Users, t \in Tables : \E name \in ColumnsOf(t), group \in GroupsOf(t) :
        Handle(moveColumnToGroupInSubmodelElementList("Passport", u, t, name, group))
ApiCreateGroupFromColumnInSubmodelElementList ==
    \E u \in Users, t \in Tables, group \in NewGroups : \E name \in ColumnsOf(t) :
        Handle(createGroupFromColumnInSubmodelElementList("Passport", u, t, name, group))
ApiAddRowToSubmodelElementList ==
    \E u \in Users, t \in Tables, first \in BOOLEAN :
        Handle(addRowToSubmodelElementList("Passport", u, t, first))
ApiDeleteRowFromSubmodelElementList ==
    \E u \in Users, t \in Tables : \E i \in 1..Len(document.rows[t]) :
        Handle(deleteRowFromSubmodelElementList("Passport", u, t, document.rows[t][i]))
ApiCreateSubmodelElement ==
    \E u \in Users, s \in document.submodels, name \in NewNames, e \in NewElements :
        Handle(createSubmodelElement("Passport", u, s, name, e))
ApiDeleteSubmodelElement ==
    \E u \in Users, p \in ElementsThere : Handle(deleteElementOf("Passport", u, p))
ApiModifySubmodelElement ==
    \E u \in Users, p \in ElementsThere : \E ms \in ModificationsOf(p) :
        Handle(modifyElement("Passport", u, p, ms))
ApiModifySubmodelElementValue ==
    \E u \in Users, p \in ElementsThere : \E ms \in ValuesBelow(p) :
        Handle(modifyElementValue("Passport", u, p, ms))
ApiCreateSubmodelElementAtIdShortPath ==
    \E u \in Users, p \in Collections, name \in NewNames, e \in NewElements :
        Handle(createSubmodelElementAtIdShortPath("Passport", u, p, name, e))
ApiModifyStatus ==
    \E u \in Users, op \in StatusOperations : modifyStatus("Passport", u, op)
ApiGetSubmodels ==
    \E u \in Users, s \in document.submodels : Read("Passport", u, s)
ApiGetSubmodelById ==
    \E u \in Users, s \in document.submodels : Read("Passport", u, s)
ApiGetSubmodelElementById ==
    \E u \in Users, p \in ElementsThere : Read("Passport", u, p)

Endpoints ==
    \/ ApiModifyShell
    \/ ApiCreateSubmodel
    \/ ApiDeletePolicyBySubjectAndObject
    \/ ApiDeleteSubmodel
    \/ ApiModifySubmodel
    \/ ApiModifyValueOfSubmodel
    \/ ApiAddColumnToSubmodelElementList
    \/ ApiModifyColumnOfSubmodelElementList
    \/ ApiDeleteColumnFromSubmodelElementList
    \/ ApiAddColumnToGroupInSubmodelElementList
    \/ ApiModifyColumnInGroupOfSubmodelElementList
    \/ ApiDeleteColumnFromGroupInSubmodelElementList
    \/ ApiMoveColumnToGroupInSubmodelElementList
    \/ ApiCreateGroupFromColumnInSubmodelElementList
    \/ ApiAddRowToSubmodelElementList
    \/ ApiDeleteRowFromSubmodelElementList
    \/ ApiCreateSubmodelElement
    \/ ApiDeleteSubmodelElement
    \/ ApiModifySubmodelElement
    \/ ApiModifySubmodelElementValue
    \/ ApiCreateSubmodelElementAtIdShortPath
    \/ ApiModifyStatus
    \/ ApiGetSubmodels
    \/ ApiGetSubmodelById
    \/ ApiGetSubmodelElementById

=============================================================================
