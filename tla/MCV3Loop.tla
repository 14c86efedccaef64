------------------------------ MODULE MCV3Loop ------------------------------
(* Small instances of V3Loop: a shared library and a service that needs it, or a *)
(* tool that a service needs.                                                    *)
EXTENDS V3Loop

CONSTANTS lib, tool, svc

LibAndService  == {lib, svc}
ToolAndService == {tool, svc}
ServiceOnly    == {svc}
LibOnly        == {lib}
ToolOnly       == {tool}
NoNodes        == {}
ServiceOnLib   == {<<svc, lib>>}
ServiceOnTool  == {<<svc, tool>>}
=============================================================================
