--------------------------- MODULE MCImageUploads ---------------------------
EXTENDS ImageUploads

MCPaths == Callers \X {"image", "thumbnail"}
MCContents == {"image", "thumbnail"}
=============================================================================
