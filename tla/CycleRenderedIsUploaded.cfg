SPECIFICATION Spec
CONSTANTS Uuid = {1}
          Version = {1, 2}
          Rendered <- MCRendered
          MaxFiles = 1
          Faults = {}
PROPERTY RenderedPreviewIsUploaded
