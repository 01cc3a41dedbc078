---------------------------- MODULE TemplateEndpoints ----------------------------
(***************************************************************************)
(* The endpoints of templates, one action per endpoint: its inputs and the *)
(* request of the service that it becomes.                                 *)
(***************************************************************************)
EXTENDS DocumentRequests

ApiModifyShell ==
    \E u \in Users, m \in ShellModifications : Handle(modifyShellOf("Template", u, m))
ApiCreateSubmodel ==
    \E u \in Users, s \in NewSubmodels : Handle(createSubmodel("Template", u, s))
ApiDeletePolicyBySubjectAndObject ==
    \E u \in Users, p \in Paths : Handle(deletePolicyOf("Template", u, p))
ApiDeleteSubmodel ==
    \E u \in Users, s \in document.submodels : Handle(deleteSubmodel("Template", u, s))
ApiModifySubmodel ==
    \E u \in Users, s \in document.submodels : \E m \in TextOf(s) :
        Handle(modifySubmodelOf("Template", u, s, m))
ApiModifyValueOfSubmodel ==
    \E u \in Users, s \in document.submodels : \E ms \in ValuesBelow(s) :
        Handle(modifyValueOf("Template", u, s, ms))
ApiAddColumnToSubmodelElementList ==
    \E u \in Users, t \in Tables, name \in NewNames \cup NewGroups, e \in NewColumns :
        Handle(addColumnToSubmodelElementList("Template", u, t, name, e))
ApiModifyColumnOfSubmodelElementList ==
    \E u \in Users, t \in Tables : \E name \in ColumnsOf(t), m \in TextOf(t) :
        Handle(modifyColumnOfSubmodelElementList("Template", u, t, name, m))
ApiDeleteColumnFromSubmodelElementList ==
    \E u \in Users, t \in Tables : \E name \in ColumnsOf(t) :
        Handle(deleteColumnFromSubmodelElementList("Template", u, t, name))
ApiAddColumnToGroupInSubmodelElementList ==
    \E u \in Users, t \in Tables, name \in NewNames, e \in NewCells : \E group \in ColumnsOf(t) :
        Handle(addColumnToGroupInSubmodelElementList("Template", u, t, group, name, e))
ApiModifyColumnInGroupOfSubmodelElementList ==
    \E u \in Users, t \in Tables : \E group \in GroupsOf(t) :
        \E name \in ColumnsIn(t, group), m \in TextOf(t) :
            Handle(modifyColumnInGroupOfSubmodelElementList("Template", u, t, group, name, m))
ApiDeleteColumnFromGroupInSubmodelElementList ==
    \E u \in Users, t \in Tables : \E group \in GroupsOf(t) : \E name \in ColumnsIn(t, group) :
        Handle(deleteColumnFromGroupInSubmodelElementList("Template", u, t, group, name))
ApiMoveColumnToGroupInSubmodelElementList ==
    \E u \in Users, t \in Tables : \E name \in ColumnsOf(t), group \in GroupsOf(t) :
        Handle(moveColumnToGroupInSubmodelElementList("Template", u, t, name, group))
ApiCreateGroupFromColumnInSubmodelElementList ==
    \E u \in Users, t \in Tables, group \in NewGroups : \E name \in ColumnsOf(t) :
        Handle(createGroupFromColumnInSubmodelElementList("Template", u, t, name, group))
ApiAddRowToSubmodelElementList ==
    \E u \in Users, t \in Tables, first \in BOOLEAN :
        Handle(addRowToSubmodelElementList("Template", u, t, first))
ApiDeleteRowFromSubmodelElementList ==
    \E u \in Users, t \in Tables : \E i \in 1..Len(document.rows[t]) :
        Handle(deleteRowFromSubmodelElementList("Template", u, t, document.rows[t][i]))
ApiCreateSubmodelElement ==
    \E u \in Users, s \in document.submodels, name \in NewNames, e \in NewElements :
        Handle(createSubmodelElement("Template", u, s, name, e))
ApiDeleteSubmodelElement ==
    \E u \in Users, p \in ElementsThere : Handle(deleteElementOf("Template", u, p))
ApiModifySubmodelElement ==
    \E u \in Users, p \in ElementsThere : \E ms \in ModificationsOf(p) :
        Handle(modifyElement("Template", u, p, ms))
ApiModifySubmodelElementValue ==
    \E u \in Users, p \in ElementsThere : \E ms \in ValuesBelow(p) :
        Handle(modifyElementValue("Template", u, p, ms))
ApiCreateSubmodelElementAtIdShortPath ==
    \E u \in Users, p \in Collections, name \in NewNames, e \in NewElements :
        Handle(createSubmodelElementAtIdShortPath("Template", u, p, name, e))
ApiModifyStatus ==
    \E u \in Users, op \in StatusOperations : modifyStatus("Template", u, op)
ApiGetSubmodels ==
    \E u \in Users, s \in document.submodels : Read("Template", u, s)
ApiGetSubmodelById ==
    \E u \in Users, s \in document.submodels : Read("Template", u, s)
ApiGetSubmodelElementById ==
    \E u \in Users, p \in ElementsThere : Read("Template", u, p)

Endpoints ==
    \/ ApiModifyShell
    \/ ApiCreateSubmodel
    \/ ApiDeletePolicyBySubjectAndObject
    \/ ApiDeleteSubmodel
    \/ ApiModifySubmodel
    \/ ApiModifyValueOfSubmodel
    \/ ApiAddColumnToSubmodelElementList
    \/ ApiModifyColumnOfSubmodelElementList
    \/ ApiDeleteColumnFromSubmodelElementList
    \/ ApiAddColumnToGroupInSubmodelElementList
    \/ ApiModifyColumnInGroupOfSubmodelElementList
    \/ ApiDeleteColumnFromGroupInSubmodelElementList
    \/ ApiMoveColumnToGroupInSubmodelElementList
    \/ ApiCreateGroupFromColumnInSubmodelElementList
    \/ ApiAddRowToSubmodelElementList
    \/ ApiDeleteRowFromSubmodelElementList
    \/ ApiCreateSubmodelElement
    \/ ApiDeleteSubmodelElement
    \/ ApiModifySubmodelElement
    \/ ApiModifySubmodelElementValue
    \/ ApiCreateSubmodelElementAtIdShortPath
    \/ ApiModifyStatus
    \/ ApiGetSubmodels
    \/ ApiGetSubmodelById
    \/ ApiGetSubmodelElementById

=============================================================================
