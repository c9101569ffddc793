--------------------------- MODULE MCEditorWindow ---------------------------
EXTENDS EditorWindow
=============================================================================
